---- MODULE Spec2Model ----
(***************************************************************************)
(* MAI-Dx Orchestrator: the debate engine (core/debate_system.py), the     *)
(* agents (agents/base_agent.py) and the orchestrator pipeline             *)
(* (core/orchestrator.py) with its scoring modules.                        *)
(*                                                                         *)
(* Texts.  A text is a sequence of lines, a line a sequence of word        *)
(* tokens.  A reply of the external model call is a text, or one of the    *)
(* two special values RAISE (the call raised) and NONE (the call returned  *)
(* a message whose content is None).  Numbers in [0,1] are integers in     *)
(* thousandths.  An Optional[...] field is <<>> (None) or <<v>>.           *)
(***************************************************************************)
EXTENDS Integers, Sequences, FiniteSets, TLC

VARIABLES
    sessions,         \* MAIDxOrchestrator.sessions: the ids stored
    heap,             \* the OrchestratorState object created for each id
    pc,               \* position of the pipeline run in flight
    kind,             \* "process" (process_diagnosis) or "debate" (conduct_debate)
    sid,              \* session_id of the process_diagnosis run in flight
    patient_info,     \* conduct_debate: patient_info
    max_rounds,       \* conduct_debate: max_rounds
    round_num,        \* conduct_debate: round_num
    responses,        \* _collect_agent_responses: responses
    current_context,  \* conduct_debate: current_context
    debate_rounds,    \* conduct_debate: debate_rounds
    calls,            \* history: the external model calls of the current run
    handlers,         \* history: the handlers invoked in the current run
    evals,            \* history: the arguments of evaluate_diagnosis in the current run
    invoked,          \* history: the last operation called, with its argument
    ret,              \* the value the last operation returned (none while one runs)
    runs,             \* number of pipeline runs started
    clock,            \* the time datetime.now() reads; it passes in asyncio.sleep
    parked,           \* the coroutines suspended in asyncio.sleep: their locals
    parks,            \* number of times a coroutine was left suspended for another
    devs              \* number of non-nominal model replies so far

vars == <<sessions, heap, pc, kind, sid, patient_info, max_rounds, round_num,
          responses, current_context, debate_rounds, calls, handlers, evals,
          invoked, ret, runs, clock, parked, parks, devs>>

-----------------------------------------------------------------------------
(* Bounds of the model *)

MaxSessions == 1
MaxRuns == 2
MaxDeviations == 1
MaxRoundsArg == 3

-----------------------------------------------------------------------------
(* Texts *)

RAISE == << <<"<raise>">> >>
NONE == << <<"<None>">> >>
EmptyText == << <<>> >>

IsText(t) == t # RAISE /\ t # NONE

\* bool(s) of a str or None
Truthy(t) == t # NONE /\ t # EmptyText

\* str.lower() on one word
LowerWord(w) ==
    CASE w = "Reconsider" -> "reconsider"
      [] w = "RECONSIDER" -> "reconsider"
      [] w = "Proceed" -> "proceed"
      [] OTHER -> w

\* str.lower()
Lower(t) == [i \in DOMAIN t |-> [j \in DOMAIN t[i] |-> LowerWord(t[i][j])]]

\* The Korean keywords of the source, romanised (strings are ASCII here)
KwAgree == "hapui"              \* "합의"      debate_system.py:66
KwQuestion == "jilmun"          \* "질문"      debate_system.py:181
KwMoreInfo == "chuga jeongbo"   \* "추가 정보"  debate_system.py:181
KwTest == "geomsa"              \* "검사"      debate_system.py:183
KwTestLoan == "teseuteu"        \* "테스트"    debate_system.py:183
KwDiagnosis == "jindan"         \* "진단"      debate_system.py:185
KwReconsider == "reconsider"    \* orchestrator.py:408
KwWon == "won"                  \* "원"        orchestrator.py:220

\* the words of the vocabulary that hold a keyword as a proper substring
SubWords == { <<"geomsa", "hyeoraek-geomsa">>,          \* "혈액검사"
              <<"geomsa", "hyeoraek-geomsa(CBC)">>,     \* "혈액검사(CBC)"
              <<"hyeoraek-geomsa", "hyeoraek-geomsa(CBC)">>,
              <<"geomsa", "yujeonja-geomsa">>,          \* "유전자검사"
              <<"geomsa", "geomsa yocheong">>,          \* "검사 요청"
              <<"jilmun", "jilmun piryo">>,             \* "질문 필요"
              <<"jindan", "jindan jegong">>,            \* "진단 제공"
              <<"reconsider", "reconsideration">>,
              <<"hapui", "hapui gyeolgwa:">>,           \* "합의 결과:"
              <<"hapui", "hapui dochul jung oryu balsaeng:">>,  \* "합의 도출 중 오류 발생:"
              <<"won", "30,000won">>,                   \* "30,000원"
              <<"won", "yak won">> }                    \* "약 원"

\* kw in word
Within(kw, word) == kw = word \/ <<kw, word>> \in SubWords

\* kw in line, for a line of words
InLine(kw, line) == \E j \in DOMAIN line : Within(kw, line[j])

\* kw in text
Contains(t, kw) == \E i \in DOMAIN t : InLine(kw, t[i])

\* the words of a text, lines joined
RECURSIVE Flatten(_)
Flatten(t) == IF t = <<>> THEN <<>> ELSE Head(t) \o Flatten(Tail(t))

\* line.replace(tag, ""): every occurrence of the tag is dropped
RemoveTag(line, tag) == SelectSeq(line, LAMBDA w : w # tag)

\* s.split(sep) on a line of words, sep being a word of its own
RECURSIVE Split(_, _)
Split(line, sep) ==
    IF \A j \in DOMAIN line : line[j] # sep THEN <<line>>
    ELSE LET p == CHOOSE j \in DOMAIN line :
                      line[j] = sep /\ \A q \in 1..(j - 1) : line[q] # sep
         IN <<SubSeq(line, 1, p - 1)>> \o Split(SubSeq(line, p + 1, Len(line)), sep)

\* variant: the body is taken as one item
SplitItems_Unsplit(body) == IF body = <<>> THEN <<>> ELSE <<body>>

\* [x.strip() for x in body.split(',') if x.strip()]
SplitItems(body) == SelectSeq(Split(body, ","), LAMBDA it : it # <<>>)

\* float(s): <<v>> in thousandths, or <<>> when float raises ValueError
ParseFloat(body) ==
    IF Len(body) # 1 THEN <<>>
    ELSE CASE body[1] = "0.9" -> <<900>>
           [] body[1] = "0.8" -> <<800>>
           [] body[1] = "0.6" -> <<600>>
           [] body[1] = "0.1" -> <<100>>
           [] body[1] = "1.5" -> <<1500>>
           [] body[1] = "-0.2" -> <<-200>>
           [] OTHER -> <<>>

Min2(a, b) == IF a < b THEN a ELSE b
Max2(a, b) == IF a > b THEN a ELSE b

\* variant: the value is passed on as it is
Clamp01_Unclamped(x) == x

\* min(1.0, max(0.0, x))
Clamp01(x) == Min2(1000, Max2(0, x))

-----------------------------------------------------------------------------
(* Python dicts: a sequence of entries [k, v] in insertion order *)

EmptyDict == <<>>

DictKeys(d) == {d[i].k : i \in DOMAIN d}

\* {**d, key: val}
DictSet(d, key, val) ==
    IF key \in DictKeys(d)
    THEN [i \in DOMAIN d |-> IF d[i].k = key THEN [k |-> key, v |-> val] ELSE d[i]]
    ELSE Append(d, [k |-> key, v |-> val])

\* d[key], for a key of d
DictGet(d, key) == d[CHOOSE i \in DOMAIN d : d[i].k = key].v

-----------------------------------------------------------------------------
(* models/medical_models.py *)

AskQuestion == "ask_question"
RequestTest == "request_test"
ProvideDiagnosis == "provide_diagnosis"
NoAction == "None"

ActionType == {AskQuestion, RequestTest, ProvideDiagnosis}

\* variant: the challenger is asked first
RoleOrder_ChallengerFirst ==
    <<"challenger", "hypothesis", "test_chooser", "stewardship", "checklist">>

\* the roles in the insertion order of ChainOfDebate.agents
RoleOrder == <<"hypothesis", "test_chooser", "challenger", "stewardship", "checklist">>

AgentRole == {RoleOrder[i] : i \in DOMAIN RoleOrder}

\* Field(ge=0.0, le=1.0): whether pydantic accepts the value
ValidUnit(x) == 0 <= x /\ x <= 1000

AgentResponse(role, response, confidence, reasoning, recommendations, concerns) ==
    [agent_role |-> role, response |-> response, confidence |-> confidence,
     reasoning |-> reasoning, recommendations |-> recommendations,
     concerns |-> concerns]

DebateRound(n, agent_responses, consensus, disagreements) ==
    [round_number |-> n, agent_responses |-> agent_responses,
     consensus |-> consensus, disagreements |-> disagreements]

-----------------------------------------------------------------------------
(* agents/base_agent.py *)

TagResponse == "RESPONSE:"
TagConfidence == "CONFIDENCE:"
TagReasoning == "REASONING:"
TagRecommendations == "RECOMMENDATIONS:"
TagConcerns == "CONCERNS:"

ErrApi == "APIError"                           \* str(e) of a failed model call
ErrNoneLen == "object of type 'NoneType' has no len()"
ErrValidation == "ValidationError"

DefaultResponse == <<"bunseok wanryo">>        \* "분석 완료"
DefaultReasoning == <<"jegongdoen jeongboreul batangeuro bunseokhaetseumnida.">>
ParseErrorReasoning == <<"eungdap pasing jung oryuga balsaenghaetseumnida.">>
SystemErrorReasoning == <<"siseutem oryuro inhae bunseogeul wanryohal su eopseumnida.">>

ResponseCut == 200

\* content[:200] + "..." if len(content) > 200 else content
CutResponse(content) ==
    LET flat == Flatten(content)
    IN IF Len(flat) > ResponseCut
       THEN SubSeq(flat, 1, ResponseCut) \o <<"...">>
       ELSE flat

\* one pass of the loop over the lines of the reply
ParseLine(acc, line) ==
    IF line = <<>> THEN acc
    ELSE IF line[1] = TagResponse
    THEN [acc EXCEPT !.section = "response",
                     !.response = RemoveTag(line, TagResponse)]
    ELSE IF line[1] = TagConfidence
    THEN LET f == ParseFloat(RemoveTag(line, TagConfidence))
         IN [acc EXCEPT !.section = "confidence",
                        !.confidence = IF f = <<>> THEN 500 ELSE f[1]]
    ELSE IF line[1] = TagReasoning
    THEN [acc EXCEPT !.section = "reasoning",
                     !.reasoning = RemoveTag(line, TagReasoning)]
    ELSE IF line[1] = TagRecommendations
    THEN [acc EXCEPT !.section = "recommendations",
                     !.recommendations = SplitItems(RemoveTag(line, TagRecommendations))]
    ELSE IF line[1] = TagConcerns
    THEN [acc EXCEPT !.section = "concerns",
                     !.concerns = SplitItems(RemoveTag(line, TagConcerns))]
    ELSE IF acc.section = "response"
    THEN [acc EXCEPT !.response = @ \o line]
    ELSE IF acc.section = "reasoning"
    THEN [acc EXCEPT !.reasoning = @ \o line]
    ELSE acc

RECURSIVE ParseLines(_, _)
ParseLines(acc, lines) ==
    IF lines = <<>> THEN acc
    ELSE ParseLines(ParseLine(acc, Head(lines)), Tail(lines))

\* BaseAgent._parse_response: [raised, err, value]
ParseResponse(role, content) ==
    IF content = NONE
    THEN \* content.split raises, and len(content) raises again in the handler
         [raised |-> TRUE, err |-> ErrNoneLen, value |-> <<>>]
    ELSE LET acc == ParseLines([section |-> "None", response |-> <<>>,
                                confidence |-> 500, reasoning |-> <<>>,
                                recommendations |-> <<>>, concerns |-> <<>>],
                               content)
         IN IF ValidUnit(acc.confidence)
            THEN [raised |-> FALSE, err |-> "",
                  value |-> <<AgentResponse(role,
                      IF acc.response = <<>> THEN DefaultResponse ELSE acc.response,
                      acc.confidence,
                      IF acc.reasoning = <<>> THEN DefaultReasoning ELSE acc.reasoning,
                      acc.recommendations, acc.concerns)>>]
            ELSE [raised |-> FALSE, err |-> "",
                  value |-> <<AgentResponse(role, CutResponse(content), 500,
                      ParseErrorReasoning, <<>>,
                      << <<"pasing oryu:", ErrValidation>> >>)>>]

\* variant: the fallback opinion carries the role of the first agent
DegradedResponse_WrongRole(role, err) ==
    AgentResponse("hypothesis", <<"bunseok jung oryuga balsaenghaetseumnida:", err>>, 0,
                  SystemErrorReasoning, <<>>, << <<"siseutem oryu:", err>> >>)

\* variant: the fallback opinion carries the neutral confidence 0.5
DegradedResponse_Neutral(role, err) ==
    AgentResponse(role, <<"bunseok jung oryuga balsaenghaetseumnida:", err>>, 500,
                  SystemErrorReasoning, <<>>, << <<"siseutem oryu:", err>> >>)

\* the opinion analyze() returns when the call or the parsing raised
DegradedResponse(role, err) ==
    AgentResponse(role, <<"bunseok jung oryuga balsaenghaetseumnida:", err>>, 0,
                  SystemErrorReasoning, <<>>, << <<"siseutem oryu:", err>> >>)

\* BaseAgent.analyze, given the reply of the model call
Analyze(role, reply) ==
    IF reply = RAISE THEN DegradedResponse(role, ErrApi)
    ELSE LET r == ParseResponse(role, reply)
         IN IF r.raised THEN DegradedResponse(role, r.err) ELSE r.value[1]

-----------------------------------------------------------------------------
(* core/debate_system.py *)

ConsensusErrorPrefix == "hapui dochul jung oryu balsaeng:"

\* ChainOfDebate._reach_consensus, given the reply of the model call
ReachConsensus(reply) ==
    IF reply = RAISE THEN << <<ConsensusErrorPrefix, ErrApi>> >> ELSE reply

FlagConfidenceSpread == <<"eijeonteudeul gan sinroedo chaiga keumnida">>
FlagConcernsPrefix == "uryeosahang balgyeon:"
FlagRecommendationsDiffer == <<"eijeonteudeurui chucheonsahangi seoro dareumnida">>

RECURSIVE SeqMax(_)
SeqMax(s) == IF Len(s) = 1 THEN s[1] ELSE Max2(s[1], SeqMax(Tail(s)))

RECURSIVE SeqMin(_)
SeqMin(s) == IF Len(s) = 1 THEN s[1] ELSE Min2(s[1], SeqMin(Tail(s)))

RECURSIVE AllConcerns(_)
AllConcerns(rs) == IF rs = <<>> THEN <<>> ELSE Head(rs).concerns \o AllConcerns(Tail(rs))

SpreadThreshold == 300

\* A confidence is a double.  The doubles of the tenths are not the tenths: the
\* table gives double(v) - v for v thousandths, in units of 2^-54 / 10.
RoundingError(v) ==
    CASE v = 100 -> 1  [] v = 200 -> 2  [] v = 300 -> -2 [] v = 400 -> 4
      [] v = 600 -> -4 [] v = 700 -> -8 [] v = 800 -> 8  [] v = 900 -> 4
      [] OTHER -> 0

\* variant: the spread is compared with >=
SpreadAbove_OrEqual(hi, lo) ==
    \/ hi - lo > SpreadThreshold
    \/ /\ hi - lo = SpreadThreshold
       /\ RoundingError(hi) - RoundingError(lo) >= RoundingError(SpreadThreshold)

\* max(confidences) - min(confidences) > 0.3, in doubles
SpreadAbove(hi, lo) ==
    \/ hi - lo > SpreadThreshold
    \/ /\ hi - lo = SpreadThreshold
       /\ RoundingError(hi) - RoundingError(lo) > RoundingError(SpreadThreshold)

\* ChainOfDebate._identify_disagreements
IdentifyDisagreements(agent_responses) ==
    LET confidences == [i \in DOMAIN agent_responses |-> agent_responses[i].confidence]
        all_concerns == AllConcerns(agent_responses)
        recs == {agent_responses[i].recommendations : i \in DOMAIN agent_responses}
    IN (IF SpreadAbove(SeqMax(confidences), SeqMin(confidences))
        THEN <<FlagConfidenceSpread>> ELSE <<>>)
       \o (IF all_concerns # <<>>
           THEN << <<FlagConcernsPrefix>>
                   \o Flatten(SubSeq(all_concerns, 1, Min2(3, Len(all_concerns)))) >>
           ELSE <<>>)
       \o (IF Cardinality(recs) > 1 THEN <<FlagRecommendationsDiffer>> ELSE <<>>)

\* ChainOfDebate._update_context
UpdateContext(context, debate_round) ==
    DictSet(DictSet(DictSet(context, "previous_round", debate_round),
                    "consensus", debate_round.consensus),
            "disagreements", debate_round.disagreements)

\* the round_context built in _collect_agent_responses for the next agent
RoundContext(context, n, so_far) ==
    DictSet(DictSet(context, "round_number", n), "previous_responses", so_far)

\* consensus and "합의" in consensus
ConsensusReached(consensus) == Truthy(consensus) /\ Contains(consensus, KwAgree)

\* variant: the diagnosis keyword is tested before the test keywords
ExtractAction_DiagnosisFirst(consensus) ==
    IF consensus = NONE
    THEN [raised |-> TRUE, value |-> "None"]
    ELSE LET c == Lower(consensus)
         IN [raised |-> FALSE,
             value |-> IF Contains(c, KwQuestion) \/ Contains(c, KwMoreInfo)
                       THEN "ask_question"
                       ELSE IF Contains(c, KwDiagnosis)
                       THEN "provide_diagnosis"
                       ELSE IF Contains(c, KwTest) \/ Contains(c, KwTestLoan)
                       THEN "request_test"
                       ELSE "ask_question"]

\* ChainOfDebate.extract_action_from_consensus: [raised, value]
ExtractAction(consensus) ==
    IF consensus = NONE
    THEN [raised |-> TRUE, value |-> NoAction]   \* None has no lower()
    ELSE LET c == Lower(consensus)
         IN [raised |-> FALSE,
             value |-> IF Contains(c, KwQuestion) \/ Contains(c, KwMoreInfo)
                       THEN AskQuestion
                       ELSE IF Contains(c, KwTest) \/ Contains(c, KwTestLoan)
                       THEN RequestTest
                       ELSE IF Contains(c, KwDiagnosis)
                       THEN ProvideDiagnosis
                       ELSE AskQuestion]

-----------------------------------------------------------------------------
(* core/analysis_modules.py: CostAnalysisModule *)

\* CostAnalysisModule.test_costs, in insertion order (coverage in thousandths)
TestCosts ==
    << [key |-> "hyeoraek-geomsa", cost |-> 50000, insurance_coverage |-> 800],   \* "혈액검사"
       [key |-> "X-ray", cost |-> 80000, insurance_coverage |-> 700],
       [key |-> "CT", cost |-> 200000, insurance_coverage |-> 600],
       [key |-> "MRI", cost |-> 400000, insurance_coverage |-> 500],
       [key |-> "choeumpa", cost |-> 60000, insurance_coverage |-> 800],          \* "초음파"
       [key |-> "simjeondo", cost |-> 30000, insurance_coverage |-> 900],         \* "심전도"
       [key |-> "sobyeon-geomsa", cost |-> 20000, insurance_coverage |-> 900],    \* "소변검사"
       [key |-> "daebyeon-geomsa", cost |-> 25000, insurance_coverage |-> 900],   \* "대변검사"
       [key |-> "allereugi-geomsa", cost |-> 100000, insurance_coverage |-> 600], \* "알레르기검사"
       [key |-> "naesigyeong", cost |-> 150000, insurance_coverage |-> 700] >>    \* "내시경"

DefaultTestCost == 50000
DefaultCoverage == 700

\* variant: only key in test_name is tested
KeyMatches_OneWay(key, test_name) == InLine(key, test_name)

\* key in test_name or test_name in key (a test name is a line of words)
KeyMatches(key, test_name) ==
    \/ InLine(key, test_name)
    \/ test_name = <<>>
    \/ Len(test_name) = 1 /\ Within(test_name[1], key)

\* index of the first entry of test_costs matching the name, 0 when none does
FirstMatch(test_name) ==
    IF \E i \in DOMAIN TestCosts : KeyMatches(TestCosts[i].key, test_name)
    THEN CHOOSE i \in DOMAIN TestCosts :
            /\ KeyMatches(TestCosts[i].key, test_name)
            /\ \A j \in 1..(i - 1) : ~KeyMatches(TestCosts[j].key, test_name)
    ELSE 0

\* CostAnalysisModule._get_test_cost
GetTestCost(test_name) ==
    IF FirstMatch(test_name) = 0 THEN DefaultTestCost
    ELSE TestCosts[FirstMatch(test_name)].cost

TestCoverage(test_name) ==
    IF FirstMatch(test_name) = 0 THEN DefaultCoverage
    ELSE TestCosts[FirstMatch(test_name)].insurance_coverage

RECURSIVE SumSeq(_)
SumSeq(s) == IF s = <<>> THEN 0 ELSE Head(s) + SumSeq(Tail(s))

\* CostAnalysisModule._calculate_insurance_coverage
CalculateInsuranceCoverage(tests) ==
    IF tests = <<>> THEN 0
    ELSE SumSeq([i \in DOMAIN tests |-> TestCoverage(tests[i].test_name)]) \div Len(tests)

HighBelow == 100000
MediumBelow == 300000

\* variant: the bounds belong to the label below them
EvaluateCostEffectiveness_Inclusive(total_cost) ==
    IF total_cost <= HighBelow THEN "high"
    ELSE IF total_cost <= MediumBelow THEN "medium"
    ELSE "low"

\* CostAnalysisModule._evaluate_cost_effectiveness
EvaluateCostEffectiveness(total_cost) ==
    IF total_cost < HighBelow THEN "high"
    ELSE IF total_cost < MediumBelow THEN "medium"
    ELSE "low"

\* the lines of a reply, stripped, blank ones dropped
NonBlankLines(text) == SelectSeq(text, LAMBDA l : l # <<>>)

CostRecFallback == <<"AI biyong bunseok jung oryuga balsaenghaetseumnida">>

\* CostAnalysisModule._generate_cost_recommendations, given the reply of its call
GenerateCostRecommendations(tests, total_cost, patient_responsibility, reply) ==
    (IF total_cost > 500000 THEN << <<"gobiyong geomsa: dangyejeok jeopgeun">> >> ELSE <<>>)
    \o (IF patient_responsibility > 200000
        THEN << <<"hwanja budami keumnida">> >> ELSE <<>>)
    \o (IF Len(tests) > 5 THEN << <<"geomsa suga manseumnida">> >> ELSE <<>>)
    \o (IF IsText(reply) THEN NonBlankLines(reply) ELSE <<CostRecFallback>>)

\* cost_breakdown[test.test_name] = base_cost, test by test
RECURSIVE CostBreakdown(_)
CostBreakdown(tests) ==
    IF tests = <<>> THEN EmptyDict
    ELSE LET t == tests[Len(tests)]
         IN DictSet(CostBreakdown(SubSeq(tests, 1, Len(tests) - 1)),
                    t.test_name, GetTestCost(t.test_name))

\* CostAnalysisModule.analyze_costs, given the reply of its one model call
AnalyzeCosts(tests, reply) ==
    LET total_cost == SumSeq([i \in DOMAIN tests |-> GetTestCost(tests[i].test_name)])
        coverage == CalculateInsuranceCoverage(tests)
        responsibility == (total_cost * (1000 - coverage)) \div 1000
    IN [total_cost |-> total_cost,
        insurance_coverage |-> coverage,
        patient_responsibility |-> responsibility,
        cost_breakdown |-> CostBreakdown(tests),
        cost_effectiveness |-> EvaluateCostEffectiveness(total_cost),
        recommendations |->
            GenerateCostRecommendations(tests, total_cost, responsibility, reply)]

-----------------------------------------------------------------------------
(* core/analysis_modules.py: DiagnosisConfirmationModule *)

AgeOf(patient) == IF patient.age = <<>> THEN 0 ELSE patient.age[1]

MethodsFallback == <<"AI hwakjeong bunseok jung oryu balsaeng">>
RisksFallback == <<"AI wiheom bunseok jung oryu balsaeng">>
FollowUpFallback == << <<"husok jochi gyehoek saengseong jung oryuga balsaenghaetseumnida.">> >>

\* DiagnosisConfirmationModule._get_confirmation_methods
GetConfirmationMethods(diagnosis, patient, reply) ==
    (IF diagnosis.confidence > 800 THEN << <<"nopeun sinroedo giban hwakjeong">> >> ELSE <<>>)
    \o (IF diagnosis.icd_code # <<>> THEN << <<"ICD kodeu maeching">> >> ELSE <<>>)
    \o (IF patient.symptoms # <<>> THEN << <<"jeungsang paeteon bunseok">> >> ELSE <<>>)
    \o (IF patient.medical_history # <<>> THEN << <<"gwageo byeongnyeok geomto">> >> ELSE <<>>)
    \o (IF IsText(reply) THEN NonBlankLines(reply) ELSE <<MethodsFallback>>)

\* float(content.strip()) of a one-line reply
ReplyNumber(reply) ==
    IF ~IsText(reply) \/ Len(NonBlankLines(reply)) # 1 THEN <<>>
    ELSE ParseFloat(NonBlankLines(reply)[1])

SymptomMatchDefault == 700
NoSymptomsMatch == 500

\* DiagnosisConfirmationModule._evaluate_symptom_match
EvaluateSymptomMatch(patient, reply) ==
    IF patient.symptoms = <<>> THEN NoSymptomsMatch
    ELSE IF ReplyNumber(reply) = <<>> THEN SymptomMatchDefault
    ELSE ReplyNumber(reply)[1]

\* DiagnosisConfirmationModule._evaluate_evidence_strength
EvaluateEvidenceStrength(supporting_evidence) ==
    IF supporting_evidence = <<>> THEN 500
    ELSE IF Len(supporting_evidence) >= 5 THEN 900
    ELSE IF Len(supporting_evidence) >= 3 THEN 700
    ELSE 600

\* DiagnosisConfirmationModule._calculate_risk_adjustment
CalculateRiskAdjustment(patient) ==
    1000 - (IF AgeOf(patient) > 65 THEN 100 ELSE 0)
         - (IF patient.medical_history # <<>> THEN 100 ELSE 0)
         - (IF patient.current_medications # <<>> THEN 50 ELSE 0)

\* DiagnosisConfirmationModule._calculate_confidence_level
CalculateConfidenceLevel(diagnosis, patient, supporting_evidence, reply) ==
    Clamp01((diagnosis.confidence * 400
             + EvaluateSymptomMatch(patient, reply) * 300
             + EvaluateEvidenceStrength(supporting_evidence) * 200
             + CalculateRiskAdjustment(patient) * 100) \div 1000)

\* DiagnosisConfirmationModule._identify_risk_factors
IdentifyRiskFactors(diagnosis, patient, reply) ==
    (IF diagnosis.severity \in {<<"severe">>, <<"critical">>}
     THEN << <<"jungjeungdoga nopeun jindan">> >> ELSE <<>>)
    \o (IF AgeOf(patient) > 65 THEN << <<"goryeong hwanja">> >> ELSE <<>>)
    \o (IF patient.medical_history # <<>> THEN << <<"gijon byeongnyeok jonjae">> >> ELSE <<>>)
    \o (IF IsText(reply) THEN NonBlankLines(reply) ELSE <<RisksFallback>>)

FollowUpBelow == 700

\* DiagnosisConfirmationModule._assess_follow_up_need
AssessFollowUpNeed(diagnosis, confidence_level) ==
    confidence_level < FollowUpBelow \/ diagnosis.severity \in {<<"severe">>, <<"critical">>}

\* DiagnosisConfirmationModule._generate_follow_up_plan: an Optional[str]
GenerateFollowUpPlan(reply) ==
    IF reply = RAISE THEN <<FollowUpFallback>>
    ELSE IF reply = NONE THEN <<>>
    ELSE <<reply>>

\* DiagnosisConfirmationModule.confirm_diagnosis, given the replies of its calls
\* (methods, symptom match, risk factors, follow-up plan)
ConfirmDiagnosis(diagnosis, patient, rm, rs, rr, rf) ==
    LET confidence_level == CalculateConfidenceLevel(diagnosis, patient, <<>>, rs)
        follow_up_required == AssessFollowUpNeed(diagnosis, confidence_level)
    IN [confirmed_diagnosis |-> diagnosis,
        confirmation_methods |-> GetConfirmationMethods(diagnosis, patient, rm),
        confidence_level |-> confidence_level,
        risk_factors |-> IdentifyRiskFactors(diagnosis, patient, rr),
        follow_up_required |-> follow_up_required,
        follow_up_plan |-> IF follow_up_required THEN GenerateFollowUpPlan(rf) ELSE <<>>]

-----------------------------------------------------------------------------
(* core/sdbench_framework.py *)

\* SDBenchFramework._calculate_basic_accuracy: symptom_keywords, romanised
SymptomKeywords == {"balyeol", "gichim", "tongjeung", "piro", "meseukkeoum",
                    "guto", "seolsa", "byeonbi", "dutong", "eojireoum",
                    "hoheupgollan", "gaseumtongjeung", "boktong", "gwanjeoltong"}

\* the symptoms (one word each) that hold a keyword
MatchedSymptoms(patient) ==
    Cardinality({i \in DOMAIN patient.symptoms :
                    \E kw \in SymptomKeywords : Within(kw, patient.symptoms[i])})

\* SDBenchFramework._calculate_basic_accuracy
CalculateBasicAccuracy(diagnosis, patient) ==
    Min2(1000,
         (diagnosis.confidence * 400) \div 1000
         + (IF patient.symptoms # <<>> /\ MatchedSymptoms(patient) > 0
            THEN (MatchedSymptoms(patient) * 300) \div Len(patient.symptoms) ELSE 0)
         + (IF diagnosis.differential_diagnoses # <<>> THEN 200 ELSE 0)
         + (IF diagnosis.severity \in {<<"mild">>, <<"moderate">>} THEN 100 ELSE 0))

\* SDBenchFramework._evaluate_accuracy
EvaluateAccuracy(diagnosis, patient, reply) ==
    IF ReplyNumber(reply) = <<>> THEN CalculateBasicAccuracy(diagnosis, patient)
    ELSE Clamp01(ReplyNumber(reply)[1])

\* SDBenchFramework._calculate_basic_cost_efficiency
CalculateBasicCostEfficiency(ca) ==
    Min2(1000,
         (IF ca.total_cost < 100000 THEN 400
          ELSE IF ca.total_cost < 300000 THEN 300
          ELSE IF ca.total_cost < 500000 THEN 200 ELSE 100)
         + (ca.insurance_coverage * 300) \div 1000
         + (IF ca.cost_effectiveness = "high" THEN 300
            ELSE IF ca.cost_effectiveness = "medium" THEN 200 ELSE 100))

NoCostEfficiency == 500

\* SDBenchFramework._evaluate_cost_efficiency (cost_analysis is an Optional)
EvaluateCostEfficiency(cost_analysis, reply) ==
    IF cost_analysis = <<>> THEN NoCostEfficiency
    ELSE IF ReplyNumber(reply) = <<>> THEN CalculateBasicCostEfficiency(cost_analysis[1])
    ELSE Clamp01(ReplyNumber(reply)[1])

\* SDBenchFramework._calculate_basic_safety
CalculateBasicSafety(diagnosis, patient) ==
    Clamp01(500
            + (CASE diagnosis.severity = <<"mild">> -> 200
                 [] diagnosis.severity = <<"moderate">> -> 100
                 [] diagnosis.severity = <<"severe">> -> -100
                 [] diagnosis.severity = <<"critical">> -> -200
                 [] OTHER -> 0)
            - (IF patient.age # <<>> /\ AgeOf(patient) # 0
               THEN (IF AgeOf(patient) > 65 THEN 100
                     ELSE IF AgeOf(patient) < 18 THEN 50 ELSE 0)
               ELSE 0)
            - (IF patient.medical_history # <<>> THEN 100 ELSE 0)
            - (IF patient.current_medications # <<>> THEN 50 ELSE 0))

\* SDBenchFramework._evaluate_safety
EvaluateSafety(diagnosis, patient, reply) ==
    IF ReplyNumber(reply) = <<>> THEN CalculateBasicSafety(diagnosis, patient)
    ELSE Clamp01(ReplyNumber(reply)[1])

\* SDBenchFramework._calculate_overall_score
CalculateOverallScore(accuracy, cost_efficiency, safety) ==
    Clamp01((accuracy * 400 + cost_efficiency * 300 + safety * 300) \div 1000)

\* one tier of SDBenchFramework._generate_feedback
Tier(score) == IF score >= 800 THEN "very high" ELSE IF score >= 600 THEN "adequate"
               ELSE "needs improvement"

\* SDBenchFramework._generate_feedback
GenerateFeedback(accuracy, cost_efficiency, safety) ==
    << <<"accuracy", Tier(accuracy)>>, <<"cost efficiency", Tier(cost_efficiency)>>,
       <<"safety", Tier(safety)>> >>

\* SDBenchFramework._generate_improvement_suggestions
GenerateImprovementSuggestions(accuracy, cost_efficiency, safety, reply) ==
    LET all == (IF IsText(reply) THEN NonBlankLines(reply) ELSE <<>>)
               \o (IF accuracy < 700 THEN << <<"chuga geomsa">> >> ELSE <<>>)
               \o (IF cost_efficiency < 600 THEN << <<"daean geomsa goryeo">> >> ELSE <<>>)
               \o (IF safety < 700 THEN << <<"anjeon peurotokol ganghwa">> >> ELSE <<>>)
    IN SubSeq(all, 1, Min2(5, Len(all)))

\* SDBenchFramework.evaluate_diagnosis, given the replies of its calls
\* (accuracy, cost efficiency, safety, improvement suggestions)
EvaluateDiagnosis(diagnosis, patient, cost_analysis, decision_result, ra, rc, rs, ri) ==
    LET accuracy == EvaluateAccuracy(diagnosis, patient, ra)
        cost_efficiency == EvaluateCostEfficiency(cost_analysis, rc)
        safety == EvaluateSafety(diagnosis, patient, rs)
    IN [accuracy_score |-> accuracy,
        cost_efficiency |-> cost_efficiency,
        safety_score |-> safety,
        overall_score |-> CalculateOverallScore(accuracy, cost_efficiency, safety),
        feedback |-> GenerateFeedback(accuracy, cost_efficiency, safety),
        improvement_suggestions |->
            GenerateImprovementSuggestions(accuracy, cost_efficiency, safety, ri)]

-----------------------------------------------------------------------------
(* core/orchestrator.py: the pure parts *)

NotFoundMessage == "sesyeoneul chajeul su eopseumnida"          \* "세션을 찾을 수 없습니다"
SuccessMessage == "jindan peuroseseuga seonggongjeogeuro wanryodoeeotseumnida"
ErrorMessage == "jindan peuroseseu jung oryuga balsaenghaetseumnida"

SystemResponse(success, message, data, session_id) ==
    [op |-> "process_diagnosis", success |-> success, message |-> message,
     data |-> data, session_id |-> session_id]

\* variant: the not-found return reports success
NotFoundResponse_Succeeds(session_id) ==
    SystemResponse(TRUE, NotFoundMessage, <<>>, session_id)

\* the response of process_diagnosis for an id that is not stored
NotFoundResponse(session_id) == SystemResponse(FALSE, NotFoundMessage, <<>>, session_id)

\* session_id in self.sessions
SessionKnown(session_id) == session_id \in sessions

\* OrchestratorState(patient_info=..., session_id=...)
InitialState(patient, session_id, created_at, updated_at) ==
    [patient_info |-> patient, current_action |-> NoAction, debate_rounds |-> <<>>,
     proposed_tests |-> <<>>, proposed_diagnosis |-> <<>>, cost_analysis |-> <<>>,
     diagnosis_confirmation |-> <<>>, final_decision |-> <<>>,
     sdbench_evaluation |-> <<>>, session_id |-> session_id,
     created_at |-> created_at, updated_at |-> updated_at]

\* int(cost_str.replace(",", "")) of the word before the first "원"
WonAmount(word) == IF word = "30,000won" THEN <<30000>> ELSE <<>>

DefaultCost == 50000

\* the cost read from a description (orchestrator.py:215-225)
ExtractCost(description) ==
    IF ~InLine(KwWon, description) THEN DefaultCost
    ELSE LET j == CHOOSE j \in DOMAIN description :
                      /\ Within(KwWon, description[j])
                      /\ \A q \in 1..(j - 1) : ~Within(KwWon, description[q])
         IN IF WonAmount(description[j]) = <<>> THEN DefaultCost
            ELSE WonAmount(description[j])[1]

\* the MedicalTest objects built from the lines of the reply
RECURSIVE ParseTests(_, _)
ParseTests(lines, so_far) ==
    IF lines = <<>> THEN so_far
    ELSE LET rec == Head(lines)
             parts == Split(rec, ":")
         IN IF Len(parts) >= 2
            THEN ParseTests(Tail(lines),
                     Append(so_far,
                            [test_name |-> parts[1], test_code |-> Len(so_far) + 1,
                             description |-> parts[2], cost |-> ExtractCost(parts[2]),
                             urgency |-> "medium", category |-> "other"]))
            ELSE ParseTests(Tail(lines), so_far)

TagCondition == "jindanmyeong:"     \* "진단명:"
TagTrust == "sinroedo:"             \* "신뢰도:"
TagSeverity == "jungjeungdo:"       \* "중증도:"
TagGrounds == "geungeo:"            \* "근거:"
TagDifferential == "gambyeoljindan:" \* "감별진단:"

UnknownCondition == <<"mihwagin jindan">>              \* "미확인 진단"
ParseErrorCondition == <<"jindan pasing oryu">>        \* "진단 파싱 오류"
DefaultDiagnosisReasoning == <<"jeungsang bunseok gyeolgwa">>

Diagnosis(condition, confidence, severity, reasoning, differential_diagnoses) ==
    [condition |-> condition, icd_code |-> <<>>, confidence |-> confidence,
     differential_diagnoses |-> differential_diagnoses, reasoning |-> reasoning,
     severity |-> severity]

\* one pass of the loop of _parse_diagnosis
ParseDiagnosisLine(acc, line) ==
    IF line = <<>> THEN acc
    ELSE IF line[1] = TagCondition
    THEN [acc EXCEPT !.condition = RemoveTag(line, TagCondition)]
    ELSE IF line[1] = TagTrust
    THEN LET f == ParseFloat(RemoveTag(line, TagTrust))
         IN [acc EXCEPT !.confidence = IF f = <<>> THEN 500 ELSE f[1]]
    ELSE IF line[1] = TagSeverity
    THEN [acc EXCEPT !.severity = RemoveTag(line, TagSeverity)]
    ELSE IF line[1] = TagGrounds
    THEN [acc EXCEPT !.reasoning = RemoveTag(line, TagGrounds)]
    ELSE IF line[1] = TagDifferential
    THEN [acc EXCEPT !.differential_diagnoses =
                         SplitItems(RemoveTag(line, TagDifferential))]
    ELSE acc

RECURSIVE ParseDiagnosisLines(_, _)
ParseDiagnosisLines(acc, lines) ==
    IF lines = <<>> THEN acc
    ELSE ParseDiagnosisLines(ParseDiagnosisLine(acc, Head(lines)), Tail(lines))

\* MAIDxOrchestrator._parse_diagnosis
ParseDiagnosis(diagnosis_text) ==
    LET fallback == Diagnosis(ParseErrorCondition, 0, <<"moderate">>,
                              <<"jindan pasing jung oryu:">>, <<>>)
    IN IF diagnosis_text = NONE THEN fallback
       ELSE LET acc == ParseDiagnosisLines(
                           Diagnosis(UnknownCondition, 500, <<"moderate">>,
                                     DefaultDiagnosisReasoning, <<>>),
                           diagnosis_text)
            IN IF ValidUnit(acc.confidence) THEN acc ELSE fallback

DecisionResult(action_taken, decision, reasoning, next_steps) ==
    [action_taken |-> action_taken, decision |-> decision, reasoning |-> reasoning,
     next_steps |-> next_steps]

\* state.current_action or ActionType.ASK_QUESTION
ActionTaken(state) ==
    IF state.current_action = NoAction THEN AskQuestion ELSE state.current_action

\* variant: the scan for "reconsider" is case-sensitive
SaysReconsider_CaseSensitive(decision_text) == Contains(decision_text, KwReconsider)

\* "reconsider" in decision_text.lower()
SaysReconsider(decision_text) == Contains(Lower(decision_text), KwReconsider)

\* MAIDxOrchestrator._make_final_decision, given the reply of its call
MakeFinalDecision(state, reply) ==
    IF ~IsText(reply)
    THEN DecisionResult(ActionTaken(state), "proceed",
                        <<"gyeoljeong saengseong jung oryu:">>, << <<"oryu bokgu">> >>)
    ELSE IF SaysReconsider(reply)
    THEN DecisionResult(ActionTaken(state), "reconsider",
                        <<"chuga geomtoga piryohamnida">>,
                        << <<"chuga jeongbo sujip">>, <<"jaepyeongga">> >>)
    ELSE DecisionResult(ActionTaken(state), "proceed",
                        <<"jindan peuroseseu wanryo">>,
                        << <<"hwanjaege gyeolgwa jeondal">> >>)

-----------------------------------------------------------------------------
(* The inputs: patients and the replies of the external model call.  Each   *)
(* call site has a nominal reply; any other reply counts as a deviation,    *)
(* and a behaviour holds at most MaxDeviations of them.                     *)

Patients ==
    { [age |-> <<70>>, gender |-> <<"F">>, symptoms |-> <<"gichim", "balyeol">>,
       medical_history |-> <<"dangnyo">>, current_medications |-> <<>>] }

SessionIds == 1..MaxSessions
AnyIds == 0..MaxSessions       \* 0: an id that was never issued

AgentNominal ==
    << <<TagResponse, "pneumonia", "likely">>, <<TagConfidence, "0.8">>,
       <<TagReasoning, "fever", "and", "cough">>,
       <<TagRecommendations, "chest", "X-ray", ",", "CBC">>, <<TagConcerns>> >>

AgentReplies ==
    { AgentNominal, RAISE, NONE,
      << <<"I", "cannot", "say">> >>,
      << <<TagResponse, "unsure">>, <<TagConfidence, "1.5">>, <<TagConcerns, "cost">> >>,
      << <<TagResponse, "unsure">>, <<TagConfidence, "0.1">>,
         <<TagRecommendations, "CBC", ",", "chest", "X-ray">>, <<TagConcerns, "cost">> >> }

ConsensusNominal == << <<"jaegeomto piryo">> >>       \* "재검토 필요"

\* the usual replies of the consensus call: they are no deviation
ConsensusUsual ==
    { ConsensusNominal,
      << <<"hapui gyeolgwa:", "geomsa yocheong">> >>,   \* "합의 결과: 검사 요청"
      << <<"hapui gyeolgwa:", "jindan jegong">> >> }    \* "합의 결과: 진단 제공"

ConsensusReplies ==
    ConsensusUsual \cup
    { RAISE, NONE, EmptyText,
      << <<"hapui gyeolgwa:", "geomsa yocheong">>, <<"jilmun piryo">> >>,
      << <<"jindan jegong">> >>,
      << <<"geomsa yocheong">> >> }

AskNominal == << <<"since", "when?">>, <<>>, <<"how", "strong?">> >>
AskReplies == {AskNominal, RAISE, NONE}

TestNominal ==
    << <<"hyeoraek-geomsa(CBC)", ":", "gibon", "30,000won", "botong">>,
       <<"yujeonja-geomsa", ":", "jeongmil", "yak won">> >>

TestReplies == {TestNominal, RAISE, NONE, << <<"geomsa", "eopseum">> >>}

ListNominal == << <<"first">>, <<"second">> >>
ListReplies == {ListNominal, RAISE, NONE}

DiagnosisNominal ==
    << <<TagCondition, "pyeryeom">>, <<TagTrust, "0.9">>, <<TagSeverity, "mild">>,
       <<TagGrounds, "fever", "and", "cough">>,
       <<TagDifferential, "gigwanjiyeom", ",", "gamgi">> >>

DiagnosisReplies ==
    { DiagnosisNominal, RAISE, NONE,
      << <<TagCondition, "pyeryeom">>, <<TagTrust, "0.6">>, <<TagSeverity, "severe">> >>,
      << <<TagCondition, "pyeryeom">>, <<TagTrust, "1.5">> >>,
      << <<"no", "diagnosis">> >> }

NumberNominal == << <<"0.8">> >>
NumberReplies ==
    {NumberNominal, RAISE, NONE, << <<"1.5">> >>, << <<"-0.2">> >>, << <<"about", "0.8">> >>}

PlanNominal == << <<"revisit", "in", "a", "week">> >>
PlanReplies == {PlanNominal, RAISE, NONE}

DecisionNominal == << <<"gyeoljeong:", "proceed">> >>

DecisionReplies ==
    { DecisionNominal, RAISE, NONE,
      << <<"gyeoljeong:", "Reconsider">> >>,
      << <<"RECONSIDER">> >>,
      << <<"gyeoljeong:", "jaegeomto">> >> }

Dev(reply, nominal) == IF reply = nominal THEN 0 ELSE 1

DevOf(reply, usual) == IF reply \in usual THEN 0 ELSE 1

\* a call that is not made has no reply: its parameter is the nominal one
Unmade(made, reply, nominal) == made \/ reply = nominal

-----------------------------------------------------------------------------
(* The state machine *)

\* one external model call: where it is made, what it is given, what it answers
Call(site, n, role, ctx, reply) ==
    [site |-> site, round |-> n, role |-> role, ctx |-> ctx, reply |-> reply]

SiteCall(site, reply) == Call(site, 0, "-", EmptyDict, reply)

NoPatient == [age |-> <<>>, gender |-> <<>>, symptoms |-> <<>>,
              medical_history |-> <<>>, current_medications |-> <<>>]

NoReturn == [op |-> "none", success |-> FALSE, message |-> "", data |-> <<>>,
             session_id |-> 0]

\* an operation called: its arguments, and whether its session id was stored then
\* (and what the store held for the id then)
Invocation(op, session_id, n, consensus, known) ==
    [op |-> op, session_id |-> session_id, max_rounds |-> n, consensus |-> consensus,
     known |-> known,
     before |-> IF known /\ session_id \in DOMAIN heap THEN heap[session_id] ELSE <<>>]

Init ==
    /\ sessions = {}
    /\ heap = [i \in SessionIds |-> <<>>]
    /\ pc = "idle"
    /\ kind = "none"
    /\ sid = 0
    /\ patient_info = NoPatient
    /\ max_rounds = 0
    /\ round_num = 0
    /\ responses = <<>>
    /\ current_context = EmptyDict
    /\ debate_rounds = <<>>
    /\ calls = <<>>
    /\ handlers = <<>>
    /\ evals = <<>>
    /\ invoked = Invocation("none", 0, 0, NONE, FALSE)
    /\ ret = NoReturn
    /\ runs = 0
    /\ clock = 0
    /\ parked = <<>>
    /\ parks = 0
    /\ devs = 0

DebateIdle ==
    /\ kind' = "none"
    /\ patient_info' = NoPatient
    /\ max_rounds' = 0
    /\ round_num' = 0
    /\ responses' = <<>>
    /\ current_context' = EmptyDict
    /\ debate_rounds' = <<>>

\* the opening of conduct_debate (debate_system.py:35-38)
DebateBegin(patient, n) ==
    /\ patient_info' = patient
    /\ max_rounds' = n
    /\ round_num' = 1
    /\ responses' = <<>>
    /\ current_context' = EmptyDict
    /\ debate_rounds' = <<>>
    /\ calls' = <<>>
    /\ handlers' = <<>>
    /\ evals' = <<>>
    /\ runs' = runs + 1

PipelineMaxRounds == 3

\* MAIDxOrchestrator.start_diagnosis_session
StartSession(patient) ==
    /\ UNCHANGED <<parked, parks>>
    /\ pc = "idle"
    /\ \E id \in DOMAIN heap :
          /\ heap[id] = <<>>
          /\ heap' = [heap EXCEPT ![id] = <<InitialState(patient, id, clock, clock)>>]
          /\ sessions' = sessions \cup {id}
          /\ invoked' = [op |-> "start_diagnosis_session", session_id |-> id,
                         patient |-> patient]
          /\ ret' = [op |-> "start_diagnosis_session", success |-> TRUE,
                     message |-> "", data |-> <<>>, session_id |-> id]
    /\ UNCHANGED <<pc, kind, sid, patient_info, max_rounds, round_num, responses,
                   current_context, debate_rounds, calls, handlers, evals, runs, clock,
                   devs>>

\* MAIDxOrchestrator.process_diagnosis, up to the call of conduct_debate
ProcessDiagnosis(session_id) ==
    /\ UNCHANGED <<parked, parks>>
    /\ pc = "idle"
    /\ invoked' = Invocation("process_diagnosis", session_id, 0, NONE,
                           SessionKnown(session_id))
    /\ IF ~SessionKnown(session_id)
       THEN /\ ret' = NotFoundResponse(session_id)
            /\ calls' = <<>>
            /\ handlers' = <<>>
            /\ evals' = <<>>
            /\ UNCHANGED <<sessions, heap, pc, kind, sid, patient_info, max_rounds,
                           round_num, responses, current_context, debate_rounds,
                           runs, clock, devs>>
       ELSE /\ runs < MaxRuns
            /\ pc' = "agents"
            /\ kind' = "process"
            /\ sid' = session_id
            /\ DebateBegin(heap[session_id][1].patient_info, PipelineMaxRounds)
            /\ ret' = NoReturn
            /\ UNCHANGED <<sessions, heap, clock, devs>>

\* ChainOfDebate.conduct_debate called on its own, up to the first agent
ConductDebate(patient, n) ==
    /\ UNCHANGED <<parked, parks>>
    /\ pc = "idle"
    /\ runs < MaxRuns
    /\ invoked' = Invocation("conduct_debate", 0, n, NONE, FALSE)
    /\ pc' = "agents"
    /\ kind' = "debate"
    /\ DebateBegin(patient, n)
    /\ ret' = NoReturn
    /\ UNCHANGED <<sessions, heap, sid, clock, devs>>

\* ChainOfDebate._collect_agent_responses: one pass of the loop over the agents
AgentStep(reply) ==
    /\ UNCHANGED <<parked, parks>>
    /\ pc = "agents"
    /\ devs + Dev(reply, AgentNominal) <= MaxDeviations
    /\ devs' = devs + Dev(reply, AgentNominal)
    /\ LET role == RoleOrder[Len(responses) + 1]
           round_context == RoundContext(current_context, round_num, responses)
       IN /\ calls' = Append(calls, Call("agent", round_num, role, round_context, reply))
          /\ responses' = Append(responses, Analyze(role, reply))
    /\ pc' = IF Len(responses) + 1 = Len(RoleOrder) THEN "consensus" ELSE "agents"
    /\ clock' = clock + 1       \* await asyncio.sleep(0.5)
    /\ UNCHANGED <<sessions, heap, kind, sid, patient_info, max_rounds, round_num,
                   current_context, debate_rounds, handlers, evals, invoked, ret, runs>>

\* variant: the loop over the rounds runs one round too many
DebateEnds_OneMore(consensus, n, last) == ConsensusReached(consensus) \/ n > last

\* whether the loop over the rounds ends after this round (debate_system.py:38,66-68)
DebateEnds(consensus, n, last) == ConsensusReached(consensus) \/ n >= last

\* ChainOfDebate.conduct_debate: the rest of a round, after its agents
\* (debate_system.py:47-70), and orchestrator.py:70 when the debate returns there
ConsensusStep(reply) ==
    /\ UNCHANGED <<parked, parks>>
    /\ pc = "consensus"
    /\ devs + DevOf(reply, ConsensusUsual) <= MaxDeviations
    /\ devs' = devs + DevOf(reply, ConsensusUsual)
    /\ calls' = Append(calls, Call("consensus", round_num, "-", EmptyDict, reply))
    /\ LET consensus == ReachConsensus(reply)
           debate_round == DebateRound(round_num, responses, consensus,
                                       IdentifyDisagreements(responses))
           rounds == Append(debate_rounds, debate_round)
       IN IF DebateEnds(consensus, round_num, max_rounds)
          THEN IF kind = "debate"
               THEN /\ ret' = [op |-> "conduct_debate", success |-> TRUE,
                               message |-> "", data |-> rounds, session_id |-> 0]
                    /\ pc' = "idle"
                    /\ DebateIdle
                    /\ UNCHANGED <<sessions, heap, sid>>
               ELSE /\ heap' = [heap EXCEPT ![sid][1].debate_rounds = rounds]
                    /\ pc' = "route"
                    /\ debate_rounds' = rounds
                    /\ responses' = <<>>
                    /\ current_context' = EmptyDict
                    /\ UNCHANGED <<sessions, kind, sid, patient_info, max_rounds,
                                   round_num, ret>>
          ELSE /\ debate_rounds' = rounds
               /\ current_context' = UpdateContext(current_context, debate_round)
               /\ round_num' = round_num + 1
               /\ responses' = <<>>
               /\ pc' = "agents"
               /\ UNCHANGED <<sessions, heap, kind, sid, patient_info, max_rounds, ret>>
    /\ UNCHANGED <<handlers, evals, invoked, runs, clock>>

\* the end of a process_diagnosis run: the locals are gone
RunEnds ==
    /\ pc' = "idle"
    /\ sid' = 0
    /\ DebateIdle

\* process_diagnosis: the except clause (orchestrator.py:117-123)
ErrorResponse(session_id) == SystemResponse(FALSE, ErrorMessage, <<>>, session_id)

\* process_diagnosis: the action is read from the last round (orchestrator.py:73-80)
Route ==
    /\ UNCHANGED <<parked, parks>>
    /\ pc = "route"
    /\ LET ex == ExtractAction(debate_rounds[Len(debate_rounds)].consensus)
       IN IF debate_rounds = <<>>
          THEN /\ pc' = "handle"
               /\ UNCHANGED <<sessions, heap, kind, sid, patient_info, max_rounds,
                              round_num, responses, current_context, debate_rounds, ret>>
          ELSE IF ex.raised
          THEN /\ ret' = ErrorResponse(sid)
               /\ RunEnds
               /\ UNCHANGED <<sessions, heap>>
          ELSE /\ heap' = [heap EXCEPT ![sid][1].current_action = ex.value]
               /\ pc' = "handle"
               /\ UNCHANGED <<sessions, kind, sid, patient_info, max_rounds, round_num,
                              responses, current_context, debate_rounds, ret>>
    /\ UNCHANGED <<calls, handlers, evals, invoked, runs, clock, devs>>

Handled(name, produced) == [name |-> name, produced |-> produced]

HandlerFrame ==
    /\ UNCHANGED <<parked, parks>>
    /\ pc' = "decide"
    /\ UNCHANGED <<sessions, kind, sid, patient_info, max_rounds, round_num, responses,
                   current_context, debate_rounds, evals, invoked, ret, runs, clock>>

\* MAIDxOrchestrator._handle_ask_question (also the default branch)
HandleAskQuestion(reply) ==
    /\ pc = "handle"
    /\ heap[sid][1].current_action \notin {RequestTest, ProvideDiagnosis}
    /\ devs + Dev(reply, AskNominal) <= MaxDeviations
    /\ devs' = devs + Dev(reply, AskNominal)
    /\ calls' = Append(calls, SiteCall("ask_question", reply))
    /\ handlers' = Append(handlers, Handled(AskQuestion, <<>>))
    /\ UNCHANGED heap
    /\ HandlerFrame

\* MAIDxOrchestrator._handle_request_test
HandleRequestTest(reply, rc) ==
    /\ pc = "handle"
    /\ heap[sid][1].current_action = RequestTest
    /\ devs + Dev(reply, TestNominal) + Dev(rc, ListNominal) <= MaxDeviations
    /\ devs' = devs + Dev(reply, TestNominal) + Dev(rc, ListNominal)
    /\ handlers' = Append(handlers, Handled(RequestTest, <<>>))
    /\ Unmade(IsText(reply), rc, ListNominal)
    /\ IF IsText(reply)
       THEN LET proposed_tests == ParseTests(reply, <<>>)
            IN /\ heap' = [heap EXCEPT
                      ![sid][1].proposed_tests = proposed_tests,
                      ![sid][1].cost_analysis = <<AnalyzeCosts(proposed_tests, rc)>>]
               /\ calls' = calls \o <<SiteCall("request_test", reply),
                                      SiteCall("cost_recommendations", rc)>>
       ELSE /\ calls' = Append(calls, SiteCall("request_test", reply))
            /\ UNCHANGED heap
    /\ HandlerFrame

\* MAIDxOrchestrator._handle_provide_diagnosis
HandleProvideDiagnosis(reply, rm, rs, rr, rf) ==
    /\ pc = "handle"
    /\ heap[sid][1].current_action = ProvideDiagnosis
    /\ LET d == Dev(reply, DiagnosisNominal) + Dev(rm, ListNominal)
                + Dev(rs, NumberNominal) + Dev(rr, ListNominal) + Dev(rf, PlanNominal)
       IN /\ devs + d <= MaxDeviations
          /\ devs' = devs + d
    /\ IF reply # RAISE
       THEN LET patient == heap[sid][1].patient_info
                diagnosis == ParseDiagnosis(reply)
                confirmation == ConfirmDiagnosis(diagnosis, patient, rm, rs, rr, rf)
            IN /\ Unmade(patient.symptoms # <<>>, rs, NumberNominal)
               /\ Unmade(confirmation.follow_up_required, rf, PlanNominal)
               /\ heap' = [heap EXCEPT
                      ![sid][1].proposed_diagnosis = <<diagnosis>>,
                      ![sid][1].diagnosis_confirmation = <<confirmation>>]
               /\ handlers' = Append(handlers, Handled(ProvideDiagnosis, <<diagnosis>>))
               /\ calls' = calls
                    \o <<SiteCall("provide_diagnosis", reply),
                         SiteCall("confirmation_methods", rm)>>
                    \o (IF patient.symptoms # <<>>
                        THEN <<SiteCall("symptom_match", rs)>> ELSE <<>>)
                    \o <<SiteCall("risk_factors", rr)>>
                    \o (IF confirmation.follow_up_required
                        THEN <<SiteCall("follow_up_plan", rf)>> ELSE <<>>)
       ELSE /\ rm = ListNominal /\ rs = NumberNominal
            /\ rr = ListNominal /\ rf = PlanNominal
            /\ handlers' = Append(handlers, Handled(ProvideDiagnosis, <<>>))
            /\ calls' = Append(calls, SiteCall("provide_diagnosis", reply))
            /\ UNCHANGED heap
    /\ HandlerFrame

\* process_diagnosis: the final decision (orchestrator.py:92-94)
Decide(reply) ==
    /\ UNCHANGED <<parked, parks>>
    /\ pc = "decide"
    /\ devs + Dev(reply, DecisionNominal) <= MaxDeviations
    /\ devs' = devs + Dev(reply, DecisionNominal)
    /\ calls' = Append(calls, SiteCall("final_decision", reply))
    /\ heap' = [heap EXCEPT
           ![sid][1].final_decision = <<MakeFinalDecision(heap[sid][1], reply)>>]
    /\ pc' = "evaluate"
    /\ UNCHANGED <<sessions, kind, sid, patient_info, max_rounds, round_num, responses,
                   current_context, debate_rounds, handlers, evals, invoked, ret, runs,
                   clock>>

\* if state.proposed_diagnosis: (orchestrator.py:97)
EvaluationDue(state) == state.proposed_diagnosis # <<>>

\* process_diagnosis: the evaluation, the store and the return (orchestrator.py:96-115)
Finish(ra, rc, rs, ri) ==
    /\ UNCHANGED <<parked, parks>>
    /\ pc = "evaluate"
    /\ LET d == Dev(ra, NumberNominal) + Dev(rc, NumberNominal)
                + Dev(rs, NumberNominal) + Dev(ri, ListNominal)
       IN /\ devs + d <= MaxDeviations
          /\ devs' = devs + d
    /\ LET state == heap[sid][1]
           evaluated ==
               IF EvaluationDue(state)
               THEN [state EXCEPT !.sdbench_evaluation =
                        <<EvaluateDiagnosis(state.proposed_diagnosis[1], state.patient_info,
                                            state.cost_analysis, state.final_decision,
                                            ra, rc, rs, ri)>>]
               ELSE state
           \* state.updated_at = datetime.now() (orchestrator.py:107)
           stored == [evaluated EXCEPT !.updated_at = clock]
       IN /\ Unmade(EvaluationDue(state), ra, NumberNominal)
          /\ Unmade(EvaluationDue(state) /\ state.cost_analysis # <<>>, rc, NumberNominal)
          /\ Unmade(EvaluationDue(state), rs, NumberNominal)
          /\ Unmade(EvaluationDue(state), ri, ListNominal)
          /\ heap' = [heap EXCEPT ![sid] = <<stored>>]
          /\ evals' = IF EvaluationDue(state)
                      THEN Append(evals, [diagnosis |-> state.proposed_diagnosis[1],
                                          cost_analysis |-> state.cost_analysis,
                                          decision_result |-> state.final_decision])
                      ELSE evals
          /\ calls' = IF EvaluationDue(state)
                      THEN calls \o <<SiteCall("accuracy", ra)>>
                           \o (IF state.cost_analysis # <<>>
                               THEN <<SiteCall("cost_efficiency", rc)>> ELSE <<>>)
                           \o <<SiteCall("safety", rs), SiteCall("improvement", ri)>>
                      ELSE calls
          /\ sessions' = sessions \cup {sid}
          /\ ret' = SystemResponse(TRUE, SuccessMessage, <<stored>>, sid)
    /\ RunEnds
    /\ UNCHANGED <<handlers, invoked, runs, clock>>

\* variant: clear_session reports True whether or not the id was stored
ClearResult_AlwaysTrue(session_id) == TRUE

\* MAIDxOrchestrator.clear_session: what it returns
ClearResult(session_id) == SessionKnown(session_id)

\* MAIDxOrchestrator.clear_session: del self.sessions[session_id] when it is known
ClearSession(session_id) ==
    /\ UNCHANGED <<parked, parks>>
    /\ pc = "idle"
    /\ sessions' = IF SessionKnown(session_id) THEN sessions \ {session_id} ELSE sessions
    /\ invoked' = Invocation("clear_session", session_id, 0, NONE,
                              SessionKnown(session_id))
    /\ ret' = [op |-> "clear_session", success |-> ClearResult(session_id),
               message |-> "", data |-> <<>>, session_id |-> session_id]
    /\ UNCHANGED <<heap, pc, kind, sid, patient_info, max_rounds, round_num, responses,
                   current_context, debate_rounds, calls, handlers, evals, runs, clock,
                   devs>>

\* MAIDxOrchestrator.get_session_state: self.sessions.get(session_id)
GetSessionState(session_id) ==
    /\ pc = "idle"
    /\ invoked' = Invocation("get_session_state", session_id, 0, NONE,
                              SessionKnown(session_id))
    /\ ret' = [op |-> "get_session_state", success |-> TRUE, message |-> "",
               data |-> IF SessionKnown(session_id) THEN heap[session_id] ELSE <<>>,
               session_id |-> session_id]
    /\ UNCHANGED <<sessions, heap, pc, kind, sid, patient_info, max_rounds, round_num,
                   responses, current_context, debate_rounds, calls, handlers, evals,
                   runs, clock, parked, parks, devs>>

\* MAIDxOrchestrator.list_sessions: list(self.sessions.keys())
ListSessions ==
    /\ pc = "idle"
    /\ invoked' = Invocation("list_sessions", 0, 0, NONE, FALSE)
    /\ ret' = [op |-> "list_sessions", success |-> TRUE, message |-> "",
               data |-> <<sessions>>, session_id |-> 0]
    /\ UNCHANGED <<sessions, heap, pc, kind, sid, patient_info, max_rounds, round_num,
                   responses, current_context, debate_rounds, calls, handlers, evals,
                   runs, clock, parked, parks, devs>>

\* the steps with the reply of the model call drawn from the replies of its site
AgentReplied == pc = "agents" /\ \E r \in AgentReplies : AgentStep(r)

ConsensusReplied == pc = "consensus" /\ \E r \in ConsensusReplies : ConsensusStep(r)

AskQuestionReplied == pc = "handle" /\ \E r \in AskReplies : HandleAskQuestion(r)

RequestTestReplied ==
    pc = "handle" /\ \E r \in TestReplies, rc \in ListReplies : HandleRequestTest(r, rc)

ProvideDiagnosisReplied ==
    pc = "handle" /\ \E r \in DiagnosisReplies, rm \in ListReplies, rs \in NumberReplies,
                        rr \in ListReplies, rf \in PlanReplies :
                        HandleProvideDiagnosis(r, rm, rs, rr, rf)

DecisionReplied == pc = "decide" /\ \E r \in DecisionReplies : Decide(r)

EvaluationReplied ==
    pc = "evaluate" /\ \E ra \in NumberReplies, rc \in NumberReplies,
                          rs \in NumberReplies, ri \in ListReplies : Finish(ra, rc, rs, ri)

Next ==
    \/ \E p \in Patients : StartSession(p)
    \/ \E id \in AnyIds : ProcessDiagnosis(id)
    \/ \E id \in sessions : ClearSession(id)
    \/ \E p \in Patients, n \in 1..MaxRoundsArg : ConductDebate(p, n)
    \/ AgentReplied
    \/ ConsensusReplied
    \/ Route
    \/ AskQuestionReplied
    \/ RequestTestReplied
    \/ ProvideDiagnosisReplied
    \/ DecisionReplied
    \/ EvaluationReplied

Spec == Init /\ [][Next]_vars


-----------------------------------------------------------------------------
(* extract_action_from_consensus called on its own, on every short text over *)
(* the keywords                                                             *)

MaxTokens == 3

NewLine == "<nl>"

Tokens == { "jilmun piryo",      \* "질문 필요"
            "chuga jeongbo",     \* "추가 정보"
            "geomsa yocheong",   \* "검사 요청"
            "teseuteu",          \* "테스트"
            "jindan jegong",     \* "진단 제공"
            "hapui gyeolgwa:",   \* "합의 결과:"
            NewLine }

\* the texts of at most MaxTokens tokens, cut into lines at the line breaks
ConsensusTexts ==
    { Split(ws, NewLine) : ws \in UNION { [1..k -> Tokens] : k \in 0..MaxTokens } }

\* a caller about to apply extract_action_from_consensus to a text
InitExtract ==
    /\ sessions = {}
    /\ heap = [i \in SessionIds |-> <<>>]
    /\ pc = "extract"
    /\ kind = "none"
    /\ sid = 0
    /\ patient_info = NoPatient
    /\ max_rounds = 0
    /\ round_num = 0
    /\ responses = <<>>
    /\ current_context = EmptyDict
    /\ debate_rounds = <<>>
    /\ calls = <<>>
    /\ handlers = <<>>
    /\ evals = <<>>
    /\ invoked \in { Invocation("extract_action_from_consensus", 0, 0, t, FALSE) :
                         t \in ConsensusTexts }
    /\ ret = NoReturn
    /\ runs = 0
    /\ clock = 0
    /\ parked = <<>>
    /\ parks = 0
    /\ devs = 0

ExtractActionFromConsensus ==
    /\ UNCHANGED <<parked, parks>>
    /\ pc = "extract"
    /\ pc' = "idle"
    /\ LET ex == ExtractAction(invoked.consensus)
       IN ret' = [op |-> "extract_action_from_consensus", success |-> ~ex.raised,
                  message |-> "", data |-> IF ex.raised THEN <<>> ELSE <<ex.value>>,
                  session_id |-> 0]
    /\ UNCHANGED <<sessions, heap, kind, sid, patient_info, max_rounds, round_num,
                   responses, current_context, debate_rounds, calls, handlers, evals,
                   invoked, runs, clock, devs>>

NextExtract == ExtractActionFromConsensus

SpecExtract == InitExtract /\ [][NextExtract]_vars

(***************************************************************************)
(* BaseAgent.analyze on its own, applied to one reply of the model call.   *)
(***************************************************************************)

ResponseBodies == { <<"pneumonia", "likely">>, <<"unsure">> }
ConfidenceBodies == { <<"0.8">>, <<"0.1">>, <<"high">>, <<"1.5">>, <<"-0.2">> }
ReasoningBodies == { <<"fever", "and", "cough">> }
RecommendationBodies == { <<>>, <<"CBC">>, <<"chest", "X-ray", ",", "CBC">> }
ConcernBodies == { <<>>, <<"cost">> }

\* the five tagged lines of a reply, in the order of the prompt
TaggedLines(response, confidence, reasoning, recommendations, concerns) ==
    << <<TagResponse>> \o response, <<TagConfidence>> \o confidence,
       <<TagReasoning>> \o reasoning, <<TagRecommendations>> \o recommendations,
       <<TagConcerns>> \o concerns >>

\* the orders of five lines
Orders == { p \in [1..5 -> 1..5] : \A i, j \in 1..5 : i # j => p[i] # p[j] }

\* the lines of a text in another order
Reordered(text, p) == [i \in DOMAIN text |-> text[p[i]]]

\* a reply longer than the cut of the fallback, with a confidence out of range
LongReply == << <<TagConfidence, "1.5">>, [i \in 1..(ResponseCut + 1) |-> "x"] >>

AnalyzeTexts ==
    { Reordered(TaggedLines(b, c, r, m, n), p) :
          b \in ResponseBodies, c \in ConfidenceBodies, r \in ReasoningBodies,
          m \in RecommendationBodies, n \in ConcernBodies, p \in Orders }
    \cup {NONE, LongReply}

\* the agent whose analyze is applied
AnalyzeRole == "challenger"

\* an agent about to parse the reply of its model call
InitAnalyze ==
    /\ sessions = {}
    /\ heap = [i \in SessionIds |-> <<>>]
    /\ pc = "analyze"
    /\ kind = "none"
    /\ sid = 0
    /\ patient_info = NoPatient
    /\ max_rounds = 0
    /\ round_num = 0
    /\ responses = <<>>
    /\ current_context = EmptyDict
    /\ debate_rounds = <<>>
    /\ calls = <<>>
    /\ handlers = <<>>
    /\ evals = <<>>
    /\ invoked \in { Invocation("analyze", 0, 0, t, FALSE) : t \in AnalyzeTexts }
    /\ ret = NoReturn
    /\ runs = 0
    /\ clock = 0
    /\ parked = <<>>
    /\ parks = 0
    /\ devs = 0

AnalyzeReply ==
    /\ pc = "analyze"
    /\ pc' = "idle"
    /\ ret' = [op |-> "analyze", success |-> TRUE, message |-> "",
               data |-> <<Analyze(AnalyzeRole, invoked.consensus)>>, session_id |-> 0]
    /\ UNCHANGED <<sessions, heap, kind, sid, patient_info, max_rounds, round_num,
                   responses, current_context, debate_rounds, calls, handlers, evals,
                   invoked, runs, clock, parked, parks, devs>>

NextAnalyze == AnalyzeReply

SpecAnalyze == InitAnalyze /\ [][NextAnalyze]_vars

(***************************************************************************)
(* ChainOfDebate._identify_disagreements on its own, applied to the        *)
(* opinions of one round.                                                  *)
(***************************************************************************)

MaxOpinions == 3

Confidences == {100, 200, 500, 800, 900}

RecsAB == << <<"CBC">>, <<"chest", "X-ray">> >>
RecsBA == << <<"chest", "X-ray">>, <<"CBC">> >>

\* the recommendations and the concerns of an opinion
OpinionKinds ==
    { [recommendations |-> RecsAB, concerns |-> <<>>],
      [recommendations |-> RecsBA, concerns |-> <<>>],
      [recommendations |-> <<>>, concerns |-> <<>>],
      [recommendations |-> RecsAB, concerns |-> << <<"cost">> >>] }

Opinions ==
    { AgentResponse(AnalyzeRole, DefaultResponse, c, DefaultReasoning,
                    k.recommendations, k.concerns) :
          c \in Confidences, k \in OpinionKinds }

OpinionLists == UNION { [1..k -> Opinions] : k \in 1..MaxOpinions }

\* a round whose opinions were collected
InitDisagreements ==
    /\ sessions = {}
    /\ heap = [i \in SessionIds |-> <<>>]
    /\ pc = "disagreements"
    /\ kind = "none"
    /\ sid = 0
    /\ patient_info = NoPatient
    /\ max_rounds = 0
    /\ round_num = 0
    /\ responses \in OpinionLists
    /\ current_context = EmptyDict
    /\ debate_rounds = <<>>
    /\ calls = <<>>
    /\ handlers = <<>>
    /\ evals = <<>>
    /\ invoked = Invocation("identify_disagreements", 0, 0, NONE, FALSE)
    /\ ret = NoReturn
    /\ runs = 0
    /\ clock = 0
    /\ parked = <<>>
    /\ parks = 0
    /\ devs = 0

IdentifyDisagreementsOfRound ==
    /\ pc = "disagreements"
    /\ pc' = "idle"
    /\ ret' = [op |-> "identify_disagreements", success |-> TRUE, message |-> "",
               data |-> IdentifyDisagreements(responses), session_id |-> 0]
    /\ UNCHANGED <<sessions, heap, kind, sid, patient_info, max_rounds, round_num,
                   responses, current_context, debate_rounds, calls, handlers, evals,
                   invoked, runs, clock, parked, parks, devs>>

NextDisagreements == IdentifyDisagreementsOfRound

SpecDisagreements == InitDisagreements /\ [][NextDisagreements]_vars

(***************************************************************************)
(* CostAnalysisModule on its own: analyze_costs applied to a list of       *)
(* tests, _evaluate_cost_effectiveness applied to a total.                 *)
(***************************************************************************)

MaxTests == 3
MaxOffset == 2

TestNames ==
    { <<"hyeoraek-geomsa(CBC)">>,       \* "혈액검사(CBC)": holds the key "혈액검사"
      <<"yujeonja-geomsa">>,            \* "유전자검사": no key
      <<"geomsa">>,                     \* "검사": held by the key "혈액검사"
      <<"MRI">>, <<"simjeondo">>, <<"sobyeon-geomsa">> }

\* the MedicalTest objects of a list of names, as _handle_request_test builds them
TestsNamed(names) ==
    [i \in DOMAIN names |->
        [test_name |-> names[i], test_code |-> i, description |-> <<>>,
         cost |-> DefaultCost, urgency |-> "medium", category |-> "other"]]

TestLists == { TestsNamed(names) : names \in UNION { [1..k -> TestNames] : k \in 0..MaxTests } }

\* totals around the two bounds of the labels
Totals == {0} \cup { HighBelow + d : d \in (0 - MaxOffset)..MaxOffset }
              \cup { MediumBelow + d : d \in (0 - MaxOffset)..MaxOffset }

\* a caller about to analyze a list of tests, or to label a total
InitCosts ==
    /\ sessions = {}
    /\ heap = [i \in SessionIds |-> <<>>]
    /\ pc = "costs"
    /\ invoked \in { [op |-> "analyze_costs", tests |-> ts, reply |-> r] :
                         ts \in TestLists, r \in {ListNominal, RAISE} }
                   \cup { [op |-> "evaluate_cost_effectiveness", total_cost |-> t] :
                              t \in Totals }
    /\ kind = "none"
    /\ sid = 0
    /\ patient_info = NoPatient
    /\ max_rounds = 0
    /\ round_num = 0
    /\ responses = <<>>
    /\ current_context = EmptyDict
    /\ debate_rounds = <<>>
    /\ calls = <<>>
    /\ handlers = <<>>
    /\ evals = <<>>
    /\ ret = NoReturn
    /\ runs = 0
    /\ clock = 0
    /\ parked = <<>>
    /\ parks = 0
    /\ devs = 0

AnalyzeCostsOfTests ==
    /\ pc = "costs"
    /\ invoked.op = "analyze_costs"
    /\ pc' = "idle"
    /\ ret' = [op |-> "analyze_costs", success |-> TRUE, message |-> "",
               data |-> <<AnalyzeCosts(invoked.tests, invoked.reply)>>, session_id |-> 0]
    /\ UNCHANGED <<sessions, heap, kind, sid, patient_info, max_rounds, round_num,
                   responses, current_context, debate_rounds, calls, handlers, evals,
                   invoked, runs, clock, parked, parks, devs>>

EvaluateCostEffectivenessOfTotal ==
    /\ pc = "costs"
    /\ invoked.op = "evaluate_cost_effectiveness"
    /\ pc' = "idle"
    /\ ret' = [op |-> "evaluate_cost_effectiveness", success |-> TRUE, message |-> "",
               data |-> <<EvaluateCostEffectiveness(invoked.total_cost)>>,
               session_id |-> 0]
    /\ UNCHANGED <<sessions, heap, kind, sid, patient_info, max_rounds, round_num,
                   responses, current_context, debate_rounds, calls, handlers, evals,
                   invoked, runs, clock, parked, parks, devs>>

NextCosts == AnalyzeCostsOfTests \/ EvaluateCostEffectivenessOfTotal

SpecCosts == InitCosts /\ [][NextCosts]_vars

(***************************************************************************)
(* Two process_diagnosis coroutines on one event loop.  A coroutine gives  *)
(* up the loop only in await asyncio.sleep(0.5) (debate_system.py:94): the *)
(* model calls are synchronous, and the other awaits run straight through. *)
(***************************************************************************)

MaxParks == 2

PairIds == {1, 2}

OtherPatient ==
    [age |-> <<30>>, gender |-> <<"M">>, symptoms |-> <<>>,
     medical_history |-> <<>>, current_medications |-> <<"aspirin">>]

PairPatient(id) == IF id = 1 THEN CHOOSE p \in Patients : TRUE ELSE OtherPatient

\* the locals of the running coroutine, and its history
Frame ==
    [pc |-> pc, kind |-> kind, sid |-> sid, patient_info |-> patient_info,
     max_rounds |-> max_rounds, round_num |-> round_num, responses |-> responses,
     current_context |-> current_context, debate_rounds |-> debate_rounds,
     calls |-> calls, handlers |-> handlers, evals |-> evals, invoked |-> invoked]

\* no coroutine is running
IdleFrame ==
    [pc |-> "idle", kind |-> "none", sid |-> 0, patient_info |-> NoPatient,
     max_rounds |-> 0, round_num |-> 0, responses |-> <<>>,
     current_context |-> EmptyDict, debate_rounds |-> <<>>,
     calls |-> <<>>, handlers |-> <<>>, evals |-> <<>>,
     invoked |-> Invocation("none", 0, 0, NONE, FALSE)]

\* variant: the context of the debate is kept on the debate system, not in the
\* coroutine, so that a resumed coroutine finds it as the other left it
Resumed_SharedContext(frame) == [frame EXCEPT !.current_context = current_context]

\* what a coroutine finds in its locals when the loop resumes it
Resumed(frame) == frame

\* the loop runs the coroutine of a frame
Running(frame) ==
    /\ pc' = frame.pc
    /\ kind' = frame.kind
    /\ sid' = frame.sid
    /\ patient_info' = frame.patient_info
    /\ max_rounds' = frame.max_rounds
    /\ round_num' = frame.round_num
    /\ responses' = frame.responses
    /\ current_context' = frame.current_context
    /\ debate_rounds' = frame.debate_rounds
    /\ calls' = frame.calls
    /\ handlers' = frame.handlers
    /\ evals' = frame.evals
    /\ invoked' = frame.invoked

\* the running coroutine is in asyncio.sleep
Sleeping ==
    /\ kind = "process"
    /\ \/ pc = "consensus"
       \/ pc = "agents" /\ responses # <<>>

\* the loop leaves the sleeping coroutine for the other one, or for a new call
Park ==
    /\ Sleeping
    /\ parks < MaxParks
    /\ parks' = parks + 1
    /\ parked' = <<Frame>>
    /\ Running(IF parked = <<>> THEN IdleFrame ELSE Resumed(parked[1]))
    /\ UNCHANGED <<sessions, heap, ret, runs, clock, devs>>

\* the running coroutine has returned: the loop resumes the sleeping one
Resume ==
    /\ pc = "idle"
    /\ parked # <<>>
    /\ parked' = <<>>
    /\ Running(Resumed(parked[1]))
    /\ UNCHANGED <<sessions, heap, ret, runs, clock, parks, devs>>

\* two sessions were started, for two patients
InitPair ==
    /\ sessions = PairIds
    /\ heap = [i \in PairIds |-> <<InitialState(PairPatient(i), i, 0, 0)>>]
    /\ pc = "idle"
    /\ kind = "none"
    /\ sid = 0
    /\ patient_info = NoPatient
    /\ max_rounds = 0
    /\ round_num = 0
    /\ responses = <<>>
    /\ current_context = EmptyDict
    /\ debate_rounds = <<>>
    /\ calls = <<>>
    /\ handlers = <<>>
    /\ evals = <<>>
    /\ invoked = Invocation("none", 0, 0, NONE, FALSE)
    /\ ret = NoReturn
    /\ runs = 0
    /\ clock = 0
    /\ parked = <<>>
    /\ parks = 0
    /\ devs = MaxDeviations     \* the calls of the two runs get their usual replies

\* a call for a session no sleeping coroutine works on
ProcessOther ==
    \E id \in PairIds : /\ \A i \in DOMAIN parked : parked[i].sid # id
                        /\ ProcessDiagnosis(id)

NextPair ==
    \/ ProcessOther
    \/ Park
    \/ Resume
    \/ AgentReplied \/ ConsensusReplied \/ Route \/ AskQuestionReplied
    \/ RequestTestReplied \/ ProvideDiagnosisReplied \/ DecisionReplied
    \/ EvaluationReplied

SpecPair == InitPair /\ [][NextPair]_vars

(***************************************************************************)
(* The session store on its own: sessions are started, looked up, listed   *)
(* and cleared, over more ids than the pipeline runs use.                  *)
(***************************************************************************)

MaxStored == 2

StoreIds == 1..MaxStored
AskedIds == 0..MaxStored       \* 0: an id that was never issued

StorePatients ==
    Patients \cup
    { [age |-> <<>>, gender |-> <<>>, symptoms |-> <<>>,
       medical_history |-> <<>>, current_medications |-> <<>>] }

InitStore ==
    /\ sessions = {}
    /\ heap = [i \in StoreIds |-> <<>>]
    /\ pc = "idle"
    /\ kind = "none"
    /\ sid = 0
    /\ patient_info = NoPatient
    /\ max_rounds = 0
    /\ round_num = 0
    /\ responses = <<>>
    /\ current_context = EmptyDict
    /\ debate_rounds = <<>>
    /\ calls = <<>>
    /\ handlers = <<>>
    /\ evals = <<>>
    /\ invoked = Invocation("none", 0, 0, NONE, FALSE)
    /\ ret = NoReturn
    /\ runs = 0
    /\ clock = 0
    /\ parked = <<>>
    /\ parks = 0
    /\ devs = 0

NextStore ==
    \/ \E p \in StorePatients : StartSession(p)
    \/ \E id \in AskedIds : ClearSession(id)
    \/ \E id \in AskedIds : GetSessionState(id)
    \/ ListSessions

SpecStore == InitStore /\ [][NextStore]_vars

(***************************************************************************)
(* DiagnosisConfirmationModule.confirm_diagnosis on its own, applied to a  *)
(* diagnosis, a patient and the replies of its model calls.                *)
(***************************************************************************)

Severities == { <<"mild">>, <<"moderate">>, <<"severe">>, <<"critical">> }

Diagnoses ==
    { Diagnosis(<<"pyeryeom">>, c, sv, <<"fever", "and", "cough">>, <<>>) :
          c \in {0, 500, 900, 1000}, sv \in Severities }

\* a caller about to confirm a diagnosis
InitConfirm ==
    /\ sessions = {}
    /\ heap = [i \in SessionIds |-> <<>>]
    /\ pc = "confirm"
    /\ invoked \in { [op |-> "confirm_diagnosis", diagnosis |-> d, patient |-> p,
                       symptom_match |-> rs, follow_up_plan |-> rf] :
                         d \in Diagnoses, p \in StorePatients,
                         rs \in NumberReplies, rf \in PlanReplies }
    /\ kind = "none"
    /\ sid = 0
    /\ patient_info = NoPatient
    /\ max_rounds = 0
    /\ round_num = 0
    /\ responses = <<>>
    /\ current_context = EmptyDict
    /\ debate_rounds = <<>>
    /\ calls = <<>>
    /\ handlers = <<>>
    /\ evals = <<>>
    /\ ret = NoReturn
    /\ runs = 0
    /\ clock = 0
    /\ parked = <<>>
    /\ parks = 0
    /\ devs = 0

ConfirmDiagnosisOfCaller ==
    /\ pc = "confirm"
    /\ pc' = "idle"
    /\ ret' = [op |-> "confirm_diagnosis", success |-> TRUE, message |-> "",
               data |-> <<ConfirmDiagnosis(invoked.diagnosis, invoked.patient, ListNominal,
                                           invoked.symptom_match, ListNominal,
                                           invoked.follow_up_plan)>>,
               session_id |-> 0]
    /\ UNCHANGED <<sessions, heap, kind, sid, patient_info, max_rounds, round_num,
                   responses, current_context, debate_rounds, calls, handlers, evals,
                   invoked, runs, clock, parked, parks, devs>>

NextConfirm == ConfirmDiagnosisOfCaller

SpecConfirm == InitConfirm /\ [][NextConfirm]_vars

(***************************************************************************)
(* MAIDxOrchestrator._parse_diagnosis on its own, applied to reply texts   *)
(* in which each of the five tagged lines is present or absent.            *)
(***************************************************************************)

\* a line or no line
Maybe(line) == { <<>>, <<line>> }

DiagnosisTexts ==
    { c \o t \o v \o g \o d :
          c \in Maybe(<<TagCondition, "pyeryeom">>),
          t \in {<<>>} \cup { << <<TagTrust>> \o b >> : b \in ConfidenceBodies },
          v \in Maybe(<<TagSeverity, "severe">>),
          g \in Maybe(<<TagGrounds, "fever", "and", "cough">>),
          d \in Maybe(<<TagDifferential, "gigwanjiyeom", ",", "gamgi">>) }
    \cup {NONE}

InitDiagnosis ==
    /\ sessions = {}
    /\ heap = [i \in SessionIds |-> <<>>]
    /\ pc = "parse"
    /\ invoked \in { [op |-> "parse_diagnosis", diagnosis_text |-> t] : t \in DiagnosisTexts }
    /\ kind = "none"
    /\ sid = 0
    /\ patient_info = NoPatient
    /\ max_rounds = 0
    /\ round_num = 0
    /\ responses = <<>>
    /\ current_context = EmptyDict
    /\ debate_rounds = <<>>
    /\ calls = <<>>
    /\ handlers = <<>>
    /\ evals = <<>>
    /\ ret = NoReturn
    /\ runs = 0
    /\ clock = 0
    /\ parked = <<>>
    /\ parks = 0
    /\ devs = 0

ParseDiagnosisOfReply ==
    /\ pc = "parse"
    /\ pc' = "idle"
    /\ ret' = [op |-> "parse_diagnosis", success |-> TRUE, message |-> "",
               data |-> <<ParseDiagnosis(invoked.diagnosis_text)>>, session_id |-> 0]
    /\ UNCHANGED <<sessions, heap, kind, sid, patient_info, max_rounds, round_num,
                   responses, current_context, debate_rounds, calls, handlers, evals,
                   invoked, runs, clock, parked, parks, devs>>

NextDiagnosis == ParseDiagnosisOfReply

SpecDiagnosis == InitDiagnosis /\ [][NextDiagnosis]_vars

(***************************************************************************)
(* The surrounding layers: the HTTP endpoints of src/api.py and the form   *)
(* of the dashboard, in front of one orchestrator.                         *)
(***************************************************************************)

InitBoundary ==
    /\ sessions = {}
    /\ heap = [i \in SessionIds |-> <<>>]
    /\ pc = "idle"
    /\ kind = "none"
    /\ sid = 0
    /\ patient_info = NoPatient
    /\ max_rounds = 0
    /\ round_num = 0
    /\ responses = <<>>
    /\ current_context = EmptyDict
    /\ debate_rounds = <<>>
    /\ calls = <<>>
    /\ handlers = <<>>
    /\ evals = <<>>
    /\ invoked = Invocation("none", 0, 0, NONE, FALSE)
    /\ ret = NoReturn
    /\ runs = 0
    /\ clock = 0
    /\ parked = <<>>
    /\ parks = 0
    /\ devs = MaxDeviations     \* the model calls get their usual replies

\* POST /sessions: the request body is copied into a PatientInfo and the
\* session is started; symptoms is a List[str] of any length
create_session(patient_info_request) == StartSession(patient_info_request)

\* the dashboard form, submitted
FormError == "choeso hanaui jeungsangeul imnyeokhaejuseyo."

show_new_session(form) ==
    IF form.symptoms = <<>>
    THEN /\ pc = "idle"
         /\ invoked' = [op |-> "show_new_session", session_id |-> 0, patient |-> form]
         /\ ret' = [op |-> "show_new_session", success |-> FALSE, message |-> FormError,
                    data |-> <<>>, session_id |-> 0]
         /\ UNCHANGED <<sessions, heap, pc, kind, sid, patient_info, max_rounds, round_num,
                        responses, current_context, debate_rounds, calls, handlers, evals,
                        runs, clock, parked, parks, devs>>
    ELSE StartSession(form)

\* POST /diagnose
start_diagnosis(session_id) == ProcessDiagnosis(session_id)

\* DELETE /sessions/{session_id}
delete_session(session_id) == ClearSession(session_id)

NextBoundary ==
    \/ \E p \in StorePatients : create_session(p)
    \/ \E p \in StorePatients : show_new_session(p)
    \/ \E id \in AnyIds : start_diagnosis(id)
    \/ \E id \in sessions : delete_session(id)
    \/ AgentReplied \/ ConsensusReplied \/ Route \/ AskQuestionReplied
    \/ RequestTestReplied \/ ProvideDiagnosisReplied \/ DecisionReplied
    \/ EvaluationReplied

SpecBoundary == InitBoundary /\ [][NextBoundary]_vars

(***************************************************************************)
(* The HTTP server: deletions arrive while process_diagnosis coroutines    *)
(* are suspended on the event loop.                                        *)
(***************************************************************************)

NextServer ==
    \/ NextPair
    \/ \E id \in sessions : delete_session(id)

SpecServer == InitPair /\ [][NextServer]_vars


-----------------------------------------------------------------------------
(* The properties *)

\* a process_diagnosis call has returned, and nothing was called since
ProcessReturned == pc = "idle" /\ invoked.op = "process_diagnosis"

\* a conduct_debate call has returned, and nothing was called since
DebateReturned == pc = "idle" /\ invoked.op = "conduct_debate"

\* the session object a returned process_diagnosis call worked on
ProcessedState == heap[invoked.session_id][1]

\* C1: process_diagnosis on a stored session id returns success=true with a
\* full state snapshot, whatever the model calls answer at every call site.
C1_KnownSessionSucceeds ==
    (ProcessReturned /\ invoked.known) => (ret.success /\ ret.data # <<>>)

\* C2: process_diagnosis on an id that is not stored returns success=false with
\* the session-not-found message, makes no model call, and changes neither the
\* set of stored ids nor any stored session.
C2_UnknownSessionRejected ==
    [][(pc = "idle" /\ invoked'.op = "process_diagnosis" /\ ~invoked'.known)
          => /\ pc' = "idle"
             /\ ret'.op = "process_diagnosis"
             /\ ret'.success = FALSE
             /\ ret'.message = NotFoundMessage
             /\ calls' = <<>>
             /\ sessions' = sessions
             /\ heap' = heap]_vars

\* C2, its case: the id of a session that was cleared is processed and rejected
C2_ClearedSessionRejected ==
    /\ ProcessReturned
    /\ ~invoked.known
    /\ invoked.session_id \in SessionIds
    /\ heap[invoked.session_id] # <<>>
    /\ ~ret.success

\* C3: the context given to an agent holds no opinion of the same round,
\* whatever the agent's position in the role order.
C3_NoSiblingOpinions ==
    \A i \in DOMAIN calls :
        calls[i].site = "agent" => DictGet(calls[i].ctx, "previous_responses") = <<>>

\* the agreement marker occurs in a consensus text
HasMarker(consensus) ==
    /\ consensus # NONE
    /\ \E i \in DOMAIN consensus : \E j \in DOMAIN consensus[i] :
           consensus[i][j] \in {"hapui", "hapui gyeolgwa:",
                                "hapui dochul jung oryu balsaeng:"}

\* rounds 1..k with 1 <= k <= n, the marker in no round before the last, and in
\* the last one when k < n
RoundsUntilAgreement(rounds, n) ==
    /\ 1 <= Len(rounds) /\ Len(rounds) <= n
    /\ \A i \in DOMAIN rounds : rounds[i].round_number = i
    /\ \A i \in 1..(Len(rounds) - 1) : ~HasMarker(rounds[i].consensus)
    /\ Len(rounds) < n => HasMarker(rounds[Len(rounds)].consensus)

\* C4: conduct_debate with max_rounds = n returns rounds numbered 1..k,
\* 1 <= k <= n; it stops after a round r < n exactly when that round's consensus
\* holds the agreement marker, and returns n rounds when no consensus holds it.
C4_RoundsUntilAgreement ==
    /\ DebateReturned => RoundsUntilAgreement(ret.data, invoked.max_rounds)
    /\ pc = "route" => RoundsUntilAgreement(debate_rounds, max_rounds)

\* C4, its cases: a debate of three rounds allowed stopped after its second
\* round, after a first round without the marker
C4_StoppedEarly ==
    /\ DebateReturned
    /\ invoked.max_rounds = 3
    /\ Len(ret.data) = 2
    /\ ret.data[1].consensus = ConsensusNominal

\* the rounds of earlier rounds' data a context carries
CarriedRounds(ctx) == { ctx[i].v : i \in { j \in DOMAIN ctx : ctx[j].k = "previous_round" } }

\* C5: the context of the agents of round r >= 2 carries the data of every
\* earlier round 1..r-1, not only that of round r-1.
C5_ContextAccumulates ==
    pc \in {"agents", "consensus"} =>
        \A i \in DOMAIN calls :
            calls[i].site = "agent" =>
                \A q \in 1..(calls[i].round - 1) :
                    debate_rounds[q] \in CarriedRounds(calls[i].ctx)

\* one opinion per role, in the fixed order
FiveInRoleOrder(round) ==
    /\ Len(round.agent_responses) = 5
    /\ [i \in 1..5 |-> round.agent_responses[i].agent_role]
           = <<"hypothesis", "test_chooser", "challenger", "stewardship", "checklist">>

\* C6: every round conduct_debate returns holds exactly five opinions, one per
\* role in the order hypothesis, test_chooser, challenger, stewardship,
\* checklist, also when agents' model calls fail or answer unparseable text.
C6_FiveOpinionsInRoleOrder ==
    /\ DebateReturned => \A i \in DOMAIN ret.data : FiveInRoleOrder(ret.data[i])
    /\ pc = "route" => \A i \in DOMAIN debate_rounds : FiveInRoleOrder(debate_rounds[i])

\* C6, its case: a returned round holds the opinion of an agent whose call failed
C6_RoundWithFailedAgent ==
    /\ DebateReturned
    /\ \E i \in DOMAIN ret.data : \E a \in 1..5 :
           /\ ret.data[i].agent_responses[a].reasoning = SystemErrorReasoning
           /\ \E c \in DOMAIN calls :
                  calls[c].site = "agent" /\ calls[c].round = i /\ calls[c].reply = RAISE

\* extract_action_from_consensus has returned for the text it was given
Extracted == pc = "idle" /\ invoked.op = "extract_action_from_consensus"

\* none of the question, test and diagnosis keywords occurs in the text
NoKeyword(t) ==
    /\ ~Contains(t, KwQuestion) /\ ~Contains(t, KwMoreInfo)
    /\ ~Contains(t, KwTest) /\ ~Contains(t, KwTestLoan)
    /\ ~Contains(t, KwDiagnosis)

\* C7 as stated: a text holding the test keyword anywhere maps to request-test
\* whatever else it holds, and a text without any keyword maps to ask-question.
C7_TestAnywhere ==
    Extracted =>
        /\ Contains(invoked.consensus, KwTest) => ret.data = <<RequestTest>>
        /\ NoKeyword(invoked.consensus) => ret.data = <<AskQuestion>>

\* C7 amended: a text holding the test keyword and neither the question keyword
\* nor the more-information keyword maps to request-test whatever else it
\* holds, and a text without any keyword maps to ask-question.
C7_TestUnlessQuestion ==
    Extracted =>
        /\ ( /\ Contains(invoked.consensus, KwTest)
             /\ ~Contains(invoked.consensus, KwQuestion)
             /\ ~Contains(invoked.consensus, KwMoreInfo) )
               => ret.data = <<RequestTest>>
        /\ NoKeyword(invoked.consensus) => ret.data = <<AskQuestion>>

\* C7, its case: a text with the diagnosis keyword before the test keyword, and
\* no question keyword, was mapped to request-test
C7_TestAmongOthers ==
    /\ Extracted
    /\ invoked.consensus = << <<"jindan jegong">>, <<"geomsa yocheong">> >>
    /\ ret.data = <<RequestTest>>

\* C8: a process_diagnosis run on a stored session invokes exactly one handler,
\* once: the handler of the action extracted from the last round's consensus,
\* which is also the session's current_action.
C8_OneHandler ==
    (ProcessReturned /\ invoked.known) =>
        LET rounds == ProcessedState.debate_rounds
            action == ExtractAction(rounds[Len(rounds)].consensus).value
        IN /\ Len(handlers) = 1
           /\ handlers[1].name = action
           /\ ProcessedState.current_action = action

\* the reply of the final-decision call of the run
DecisionReply == calls[CHOOSE i \in DOMAIN calls : calls[i].site = "final_decision"].reply

\* C9: after a successful process_diagnosis run final_decision is set; its
\* decision is "reconsider" exactly when the decision call answered a text that
\* holds "reconsider" in any letter case, and "proceed" otherwise, a failed call
\* included; its action_taken is the session's current action.
C9_FinalDecision ==
    (ProcessReturned /\ ret.success) =>
        /\ ProcessedState.final_decision # <<>>
        /\ LET d == ProcessedState.final_decision[1]
               said == /\ IsText(DecisionReply)
                       /\ \E i \in DOMAIN DecisionReply : \E j \in DOMAIN DecisionReply[i] :
                              DecisionReply[i][j] \in {"reconsider", "Reconsider",
                                                       "RECONSIDER", "reconsideration"}
           IN /\ d.decision = IF said THEN "reconsider" ELSE "proceed"
              /\ d.action_taken = ProcessedState.current_action

\* C9, its case: the decision call answered "Reconsider" and the run succeeded
C9_CapitalisedReconsider ==
    /\ ProcessReturned
    /\ ret.success
    /\ DecisionReply = << <<"gyeoljeong:", "Reconsider">> >>
    /\ ProcessedState.final_decision[1].decision = "reconsider"

\* the diagnoses the handlers of the run produced
ProposedInRun ==
    { handlers[i].produced[1] :
          i \in { j \in DOMAIN handlers :
                     handlers[j].name = ProvideDiagnosis /\ handlers[j].produced # <<>> } }

\* C10: a process_diagnosis run invokes the evaluation if and only if the run
\* proposed a diagnosis, after the final decision is stored, and with the run's
\* diagnosis, cost analysis and final decision.
C10_EvaluationIffProposed ==
    (ProcessReturned /\ ret.success) =>
        /\ (evals # <<>>) <=> (ProposedInRun # {})
        /\ \A i \in DOMAIN evals :
               /\ evals[i].diagnosis \in ProposedInRun
               /\ evals[i].cost_analysis = ProcessedState.cost_analysis
               /\ evals[i].decision_result # <<>>
               /\ evals[i].decision_result = ProcessedState.final_decision

\* the fields of a session state other than updated_at
Fields(state) == [state EXCEPT !.updated_at = 0]

\* C11: no process_diagnosis call returns, with either outcome, leaving a
\* session whose fields changed while its updated_at did not advance, and
\* updated_at >= created_at in every state.
C11_UpdatedAtRefreshed ==
    /\ \A id \in SessionIds :
           heap[id] # <<>> => heap[id][1].updated_at >= heap[id][1].created_at
    /\ (ProcessReturned /\ invoked.known) =>
           (Fields(ProcessedState) # Fields(invoked.before[1])
                => ProcessedState.updated_at > invoked.before[1].updated_at)

\* the stage outputs of a session state are all empty
NoStageOutputs(state) ==
    /\ state.current_action = NoAction
    /\ state.debate_rounds = <<>>
    /\ state.proposed_tests = <<>>
    /\ state.proposed_diagnosis = <<>>
    /\ state.cost_analysis = <<>>
    /\ state.diagnosis_confirmation = <<>>
    /\ state.final_decision = <<>>
    /\ state.sdbench_evaluation = <<>>

\* the ids started so far and not cleared since, kept step by step
StoreStep ==
    LET id == invoked'.session_id
    IN CASE invoked'.op = "start_diagnosis_session" ->
              /\ id \notin sessions
              /\ heap[id] = <<>>
              /\ sessions' = sessions \cup {id}
              /\ ret'.session_id = id
              /\ heap' = [heap EXCEPT ![id] = heap'[id]]
              /\ Len(heap'[id]) = 1
              /\ heap'[id][1].patient_info = invoked'.patient
              /\ heap'[id][1].session_id = id
              /\ NoStageOutputs(heap'[id][1])
         [] invoked'.op = "list_sessions" ->
              /\ ret'.data = <<sessions>>
              /\ sessions' = sessions /\ heap' = heap
         [] invoked'.op = "clear_session" ->
              /\ ret'.success = (id \in sessions)
              /\ sessions' = sessions \ {id}
              /\ heap' = heap
         [] invoked'.op = "get_session_state" ->
              /\ id \notin sessions => ret'.data = <<>>
              /\ id \in sessions => ret'.data = heap[id]
              /\ sessions' = sessions /\ heap' = heap
         [] OTHER -> FALSE

\* C12: start_diagnosis_session returns a fresh id and stores a state with the
\* given patient and empty stage outputs; list_sessions returns exactly the ids
\* started and not cleared; clear_session returns true iff the id was stored and
\* otherwise leaves the store alone; get_session_state returns nothing for an
\* id not stored.
C12_SessionStore == [][StoreStep]_vars

\* a session was started and cleared, and clearing it again was refused
C12_ClearedTwice ==
    /\ ret.op = "clear_session"
    /\ ~ret.success
    /\ ret.session_id \in StoreIds
    /\ heap[ret.session_id] # <<>>
    /\ sessions # {}

\* the reply a run got at a call site (the usual one where it made no such call)
ReplyAt(log, site, nominal) ==
    IF \E i \in DOMAIN log : log[i].site = site
    THEN log[CHOOSE i \in DOMAIN log :
                 /\ log[i].site = site
                 /\ \A j \in 1..(i - 1) : log[j].site # site].reply
    ELSE nominal

\* The debate of a run executed alone, replayed from the replies in its log:
\* the rounds it leaves, and whether every agent was given the context of its
\* own run and the debate ended where the log says.
RECURSIVE AloneDebate(_, _, _)
AloneDebate(log, i, d) ==
    IF i > Len(log) \/ log[i].site \notin {"agent", "consensus"}
    THEN [d EXCEPT !.ok = d.ok /\ d.over]
    ELSE IF d.over \/ ~d.ok
    THEN [d EXCEPT !.ok = FALSE]
    ELSE IF log[i].site = "agent"
    THEN IF Len(d.responses) >= Len(RoleOrder)
         THEN [d EXCEPT !.ok = FALSE]
         ELSE LET role == RoleOrder[Len(d.responses) + 1]
                  n == Len(d.rounds) + 1
              IN AloneDebate(log, i + 1,
                     [d EXCEPT !.responses = Append(d.responses, Analyze(role, log[i].reply)),
                               !.ok = /\ log[i].role = role
                                      /\ log[i].round = n
                                      /\ log[i].ctx = RoundContext(d.context, n, d.responses)])
    ELSE LET n == Len(d.rounds) + 1
             consensus == ReachConsensus(log[i].reply)
             debate_round == DebateRound(n, d.responses, consensus,
                                         IdentifyDisagreements(d.responses))
         IN AloneDebate(log, i + 1,
                [rounds |-> Append(d.rounds, debate_round),
                 responses |-> <<>>,
                 context |-> UpdateContext(d.context, debate_round),
                 over |-> DebateEnds(consensus, n, PipelineMaxRounds),
                 ok |-> Len(d.responses) = Len(RoleOrder)])

\* The session state a process_diagnosis run executed alone leaves, from the
\* state before the call and the replies in the log of the run.
AloneState(before, log) ==
    LET d == AloneDebate(log, 1, [rounds |-> <<>>, responses |-> <<>>,
                                  context |-> EmptyDict, over |-> FALSE, ok |-> TRUE])
        s1 == [before EXCEPT !.debate_rounds = d.rounds]
        ex == ExtractAction(d.rounds[Len(d.rounds)].consensus)
        s2 == [s1 EXCEPT !.current_action = ex.value]
        tests == ParseTests(ReplyAt(log, "request_test", TestNominal), <<>>)
        diagnosis == ParseDiagnosis(ReplyAt(log, "provide_diagnosis", DiagnosisNominal))
        s3 == IF /\ s2.current_action = RequestTest
                 /\ IsText(ReplyAt(log, "request_test", TestNominal))
              THEN [s2 EXCEPT
                      !.proposed_tests = tests,
                      !.cost_analysis =
                          <<AnalyzeCosts(tests, ReplyAt(log, "cost_recommendations",
                                                        ListNominal))>>]
              ELSE IF /\ s2.current_action = ProvideDiagnosis
                      /\ ReplyAt(log, "provide_diagnosis", DiagnosisNominal) # RAISE
              THEN [s2 EXCEPT
                      !.proposed_diagnosis = <<diagnosis>>,
                      !.diagnosis_confirmation =
                          <<ConfirmDiagnosis(diagnosis, s2.patient_info,
                                ReplyAt(log, "confirmation_methods", ListNominal),
                                ReplyAt(log, "symptom_match", NumberNominal),
                                ReplyAt(log, "risk_factors", ListNominal),
                                ReplyAt(log, "follow_up_plan", PlanNominal))>>]
              ELSE s2
        s4 == [s3 EXCEPT !.final_decision =
                  <<MakeFinalDecision(s3, ReplyAt(log, "final_decision", DecisionNominal))>>]
        s5 == IF EvaluationDue(s4)
              THEN [s4 EXCEPT !.sdbench_evaluation =
                      <<EvaluateDiagnosis(s4.proposed_diagnosis[1], s4.patient_info,
                            s4.cost_analysis, s4.final_decision,
                            ReplyAt(log, "accuracy", NumberNominal),
                            ReplyAt(log, "cost_efficiency", NumberNominal),
                            ReplyAt(log, "safety", NumberNominal),
                            ReplyAt(log, "improvement", ListNominal))>>]
              ELSE s4
    IN [ok |-> d.ok /\ d.rounds # <<>>,
        state |-> IF ~d.ok \/ d.rounds = <<>> THEN before
                  ELSE IF ex.raised THEN s1 ELSE s5]

\* a returned run left its session as the run executed alone would have
LeftAsAlone ==
    (ProcessReturned /\ invoked.known) =>
        LET alone == AloneState(invoked.before[1], calls)
        IN /\ alone.ok
           /\ Fields(ProcessedState) = Fields(alone.state)

\* a step of a run writes no session but the one of the run
WritesOwnSession ==
    \A id \in DOMAIN heap : heap'[id] # heap[id] => (pc # "idle" /\ id = sid)

\* C13: process_diagnosis runs for two different session ids, interleaved at
\* their await points, neither read nor write the other session's state: every
\* agent is given the context of its own run, every step writes its own session
\* only, and every run leaves its session as the run executed alone with the
\* same replies would.
C13_RunsDoNotInterfere == [](LeftAsAlone) /\ [][WritesOwnSession]_vars

\* a run returned after it slept through steps of the run for the other session
C13_ReturnedAfterInterleaving ==
    /\ ProcessReturned
    /\ ret.success
    /\ parks = MaxParks
    /\ parked = <<>>
    /\ \A id \in PairIds : heap[id][1].debate_rounds # <<>>

\* a debate is under way, or has just handed its rounds to process_diagnosis
InDebate == pc \in {"agents", "consensus", "route"}

\* the place of a role in the fixed order
RoleIndex(role) == CHOOSE k \in DOMAIN RoleOrder : RoleOrder[k] = role

\* the opinion the debate holds for an agent call of its log
OpinionOf(call) ==
    IF call.round <= Len(debate_rounds)
    THEN debate_rounds[call.round].agent_responses[RoleIndex(call.role)]
    ELSE responses[RoleIndex(call.role)]

\* the agent calls of the log whose model call failed
FailedCalls == { i \in DOMAIN calls : calls[i].site = "agent" /\ calls[i].reply = RAISE }

\* C14: when an agent's model call fails, analyze returns a degraded opinion
\* for that agent's role, with confidence exactly 0.0, the fixed system-error
\* reasoning, no recommendations and concerns that contain the error text, and
\* the round goes on: every completed round has called all five agents.
C14_FailedCallDegrades ==
    InDebate =>
        /\ \A i \in FailedCalls :
               LET o == OpinionOf(calls[i])
               IN /\ o.agent_role = calls[i].role
                  /\ o.confidence = 0
                  /\ o.reasoning = SystemErrorReasoning
                  /\ o.recommendations = <<>>
                  /\ \E c \in DOMAIN o.concerns : InLine(ErrApi, o.concerns[c])
        /\ \A n \in DOMAIN debate_rounds : \A k \in DOMAIN RoleOrder :
               \E i \in DOMAIN calls : /\ calls[i].site = "agent"
                                       /\ calls[i].round = n
                                       /\ calls[i].role = RoleOrder[k]

\* C14, its case: the call of an agent that is not the last failed, and the
\* round was completed
C14_RoundWentOn ==
    /\ InDebate
    /\ \E i \in FailedCalls : /\ calls[i].round <= Len(debate_rounds)
                              /\ RoleIndex(calls[i].role) < Len(RoleOrder)

\* a value of [0, 1], in thousandths
InUnit(x) == x \in 0..1000

\* the confidences of the opinions of a list of rounds
RoundsInUnit(rounds) ==
    \A n \in DOMAIN rounds : \A a \in DOMAIN rounds[n].agent_responses :
        InUnit(rounds[n].agent_responses[a].confidence)

\* the confidence and score fields of a session state
StateInUnit(state) ==
    /\ RoundsInUnit(state.debate_rounds)
    /\ \A i \in DOMAIN state.proposed_diagnosis : InUnit(state.proposed_diagnosis[i].confidence)
    /\ \A i \in DOMAIN state.diagnosis_confirmation :
           /\ InUnit(state.diagnosis_confirmation[i].confidence_level)
           /\ InUnit(state.diagnosis_confirmation[i].confirmed_diagnosis.confidence)
    /\ \A i \in DOMAIN state.sdbench_evaluation :
           /\ InUnit(state.sdbench_evaluation[i].accuracy_score)
           /\ InUnit(state.sdbench_evaluation[i].cost_efficiency)
           /\ InUnit(state.sdbench_evaluation[i].safety_score)
           /\ InUnit(state.sdbench_evaluation[i].overall_score)

\* a model call of the run answered a number outside [0, 1]
OutOfRangeReply(site) ==
    \E i \in DOMAIN calls : /\ calls[i].site = site
                            /\ calls[i].reply \in {<< <<"1.5">> >>, << <<"-0.2">> >>}

\* C15: every confidence and score field stored on a session or returned by a
\* component (opinion confidence, diagnosis confidence, confirmation
\* confidence_level, accuracy, cost-efficiency, safety and overall scores) lies
\* in [0,1] in every reachable state, whatever the model calls answer.
C15_ScoresInUnit ==
    /\ \A id \in DOMAIN heap : \A i \in DOMAIN heap[id] : StateInUnit(heap[id][i])
    /\ RoundsInUnit(debate_rounds)
    /\ \A a \in DOMAIN responses : InUnit(responses[a].confidence)
    /\ DebateReturned => RoundsInUnit(ret.data)
    /\ ProcessReturned => \A i \in DOMAIN ret.data : StateInUnit(ret.data[i])

\* C15, its case: an evaluation was stored whose model call answered a number
\* outside [0,1]
C15_OutOfRangeScoreReply ==
    /\ ProcessReturned
    /\ ret.success
    /\ ProcessedState.sdbench_evaluation # <<>>
    /\ \E site \in {"accuracy", "cost_efficiency", "safety"} : OutOfRangeReply(site)

\* analyze has returned for the reply it was given
Analyzed == pc = "idle" /\ invoked.op = "analyze"

\* the lines of a text that begin with a tag
TagLines(text, tag) == { i \in DOMAIN text : text[i] # <<>> /\ text[i][1] = tag }

\* the body of the line of a tag
BodyOf(text, tag) == Tail(text[CHOOSE i \in TagLines(text, tag) : TRUE])

\* each of the five tags begins exactly one line, and there is no other line
FiveTagged(text) ==
    /\ Len(text) = 5
    /\ \A tag \in {TagResponse, TagConfidence, TagReasoning, TagRecommendations,
                     TagConcerns} : Cardinality(TagLines(text, tag)) = 1

\* the number a CONFIDENCE body stands for, if it is one
NumberOf(body) ==
    IF body = <<"0.8">> THEN <<800>>
    ELSE IF body = <<"0.1">> THEN <<100>>
    ELSE IF body = <<"1.5">> THEN <<1500>>
    ELSE IF body = <<"-0.2">> THEN <<-200>>
    ELSE <<>>

\* the bodies of RESPONSE and REASONING are not empty
TextBodies(text) ==
    BodyOf(text, TagResponse) # <<>> /\ BodyOf(text, TagReasoning) # <<>>

\* the five bodies are well formed
WellFormed(text) ==
    /\ FiveTagged(text)
    /\ TextBodies(text)
    /\ NumberOf(BodyOf(text, TagConfidence)) # <<>>
    /\ InUnit(NumberOf(BodyOf(text, TagConfidence))[1])

\* the items of a body, separated by commas
RECURSIVE CommaItems(_, _)
CommaItems(body, item) ==
    IF body = <<>> THEN (IF item = <<>> THEN <<>> ELSE <<item>>)
    ELSE IF Head(body) = ","
    THEN (IF item = <<>> THEN <<>> ELSE <<item>>) \o CommaItems(Tail(body), <<>>)
    ELSE CommaItems(Tail(body), Append(item, Head(body)))

\* the RESPONSE, REASONING, RECOMMENDATIONS and CONCERNS of the reply are in the opinion
BodiesKept(o, text) ==
    /\ o.response = BodyOf(text, TagResponse)
    /\ o.reasoning = BodyOf(text, TagReasoning)
    /\ o.recommendations = CommaItems(BodyOf(text, TagRecommendations), <<>>)
    /\ o.concerns = CommaItems(BodyOf(text, TagConcerns), <<>>)

\* C16: for a reply in which each of the five tags appears once on its own
\* line with a well-formed body, the opinion has the fields of the tag bodies
\* (lists split on commas, confidence as the number), and it is the same for
\* every order of the five lines.
C16_TaggedBodiesAnyOrder ==
    (Analyzed /\ WellFormed(invoked.consensus)) =>
        LET o == ret.data[1]
            text == invoked.consensus
        IN /\ o.agent_role = AnalyzeRole
           /\ BodiesKept(o, text)
           /\ o.confidence = NumberOf(BodyOf(text, TagConfidence))[1]
           /\ \A p \in Orders : Analyze(AnalyzeRole, Reordered(text, p)) = o

\* C16, its case: a well-formed reply with CONCERNS first and RESPONSE last,
\* and a list of two recommendations
C16_ReversedLines ==
    /\ Analyzed
    /\ WellFormed(invoked.consensus)
    /\ invoked.consensus[1][1] = TagConcerns
    /\ invoked.consensus[5][1] = TagResponse
    /\ Len(ret.data[1].recommendations) = 2

\* the parsing of the reply raises: it is no string, or its confidence is
\* refused by the validation of AgentResponse
WholeFailure(text) ==
    \/ text = NONE
    \/ /\ TagLines(text, TagConfidence) # {}
       /\ NumberOf(BodyOf(text, TagConfidence)) # <<>>
       /\ ~InUnit(NumberOf(BodyOf(text, TagConfidence))[1])

\* the first 200 characters of the raw text, the whole text when it is shorter
FirstOfRaw(text) ==
    IF Len(Flatten(text)) > ResponseCut THEN SubSeq(Flatten(text), 1, ResponseCut)
    ELSE Flatten(text)

\* C17: when parsing an agent reply fails as a whole, the opinion has
\* confidence 0.5, a response equal to the first 200 characters of the raw text
\* (the whole text when shorter), the fixed parse-error reasoning, no
\* recommendations and exactly one concern.
C17_WholeFailureFallback ==
    (Analyzed /\ WholeFailure(invoked.consensus)) =>
        LET o == ret.data[1]
        IN /\ o.confidence = 500
           /\ o.response = FirstOfRaw(invoked.consensus)
           /\ o.reasoning = ParseErrorReasoning
           /\ o.recommendations = <<>>
           /\ Len(o.concerns) = 1

\* C18: a CONFIDENCE that cannot be used as given does not fail the record: a
\* non-numeric value yields 0.5, a number outside [0,1] yields the number
\* clamped into [0,1], and the RESPONSE, REASONING, RECOMMENDATIONS and
\* CONCERNS of the reply are kept.
C18_UnusableConfidenceKeepsRecord ==
    (Analyzed /\ FiveTagged(invoked.consensus) /\ TextBodies(invoked.consensus)
              /\ ~WellFormed(invoked.consensus)) =>
        LET o == ret.data[1]
            text == invoked.consensus
            number == NumberOf(BodyOf(text, TagConfidence))
        IN /\ BodiesKept(o, text)
           /\ number = <<>> => o.confidence = 500
           /\ number # <<>> => o.confidence = (IF number[1] > 1000 THEN 1000 ELSE 0)

\* _identify_disagreements has returned for the opinions of the round
Identified == pc = "idle" /\ invoked.op = "identify_disagreements"

\* the flags of the result
Flags == { ret.data[i] : i \in DOMAIN ret.data }

\* hi - lo > 0.3 for two confidences as the program holds them: doubles.  The
\* doubles of 0.4 and 0.1, 0.8 and 0.5, 0.9 and 0.6, 1.0 and 0.7 differ by more
\* than the double of 0.3; those of the other tenths 0.3 apart do not.
ApartByMore(hi, lo) ==
    \/ hi - lo > 300
    \/ <<hi, lo>> \in {<<400, 100>>, <<800, 500>>, <<900, 600>>, <<1000, 700>>}

\* the maximum minus the minimum confidence is strictly greater than 0.3
LargeSpread ==
    \E i, j \in DOMAIN responses : ApartByMore(responses[i].confidence,
                                                responses[j].confidence)

\* C19: the result holds the confidence-spread flag if and only if the maximum
\* minus the minimum confidence of the opinions is strictly greater than 0.3;
\* with confidences 0.1, 0.9, 0.5, no concerns and identical recommendation
\* lists it holds the spread flag and not the recommendations-differ flag.
C19_SpreadFlag ==
    Identified =>
        /\ FlagConfidenceSpread \in Flags <=> LargeSpread
        /\ ( /\ [i \in DOMAIN responses |-> responses[i].confidence] = <<100, 900, 500>>
             /\ \A i \in DOMAIN responses :
                    /\ responses[i].concerns = <<>>
                    /\ responses[i].recommendations = responses[1].recommendations )
               => /\ FlagConfidenceSpread \in Flags
                  /\ FlagRecommendationsDiffer \notin Flags

\* C19, its case: three opinions with confidences 0.1, 0.9, 0.5, no concerns
\* and the same list of recommendations
C19_ThreeOpinions ==
    /\ Identified
    /\ [i \in DOMAIN responses |-> responses[i].confidence] = <<100, 900, 500>>
    /\ \A i \in DOMAIN responses : /\ responses[i].concerns = <<>>
                                    /\ responses[i].recommendations = RecsAB
    /\ FlagConfidenceSpread \in Flags

\* the recommendations of an opinion, as an unordered collection
RecommendationSet(o) == { o.recommendations[i] : i \in DOMAIN o.recommendations }

\* C20: the recommendations-differ flag is raised if and only if at least two
\* opinions of the round have different sets of recommendations; the same
\* recommendations in a different order do not raise it.
C20_UnorderedRecommendations ==
    Identified =>
        (FlagRecommendationsDiffer \in Flags
            <=> \E i, j \in DOMAIN responses :
                    RecommendationSet(responses[i]) # RecommendationSet(responses[j]))

\* analyze_costs has returned for the tests it was given
CostsAnalyzed == pc = "idle" /\ invoked.op = "analyze_costs"

\* the cost and the coverage of the table for a test name: those of the key
\* "혈액검사" for a name that holds it or is held by it, and so on; 50000 and
\* 0.7 for a name that matches no key
LookedUp(test_name) ==
    CASE test_name = <<"hyeoraek-geomsa(CBC)">> -> [cost |-> 50000, coverage |-> 800]
      [] test_name = <<"geomsa">> -> [cost |-> 50000, coverage |-> 800]
      [] test_name = <<"MRI">> -> [cost |-> 400000, coverage |-> 500]
      [] test_name = <<"simjeondo">> -> [cost |-> 30000, coverage |-> 900]
      [] test_name = <<"sobyeon-geomsa">> -> [cost |-> 20000, coverage |-> 900]
      [] OTHER -> [cost |-> 50000, coverage |-> 700]

RECURSIVE TotalOf(_, _)
TotalOf(tests, field) ==
    IF tests = <<>> THEN 0
    ELSE LookedUp(Head(tests).test_name)[field] + TotalOf(Tail(tests), field)

\* C21: for every non-empty test list, total_cost is the sum of the looked-up
\* costs, insurance_coverage the unweighted mean of the per-test coverages (to
\* the thousandth), and patient_responsibility total_cost x (1 -
\* insurance_coverage); one test matching "혈액검사" and one unmatched test give
\* 100000, 0.75 and 25000.
C21_CostsOfTests ==
    (CostsAnalyzed /\ invoked.tests # <<>>) =>
        LET ca == ret.data[1]
            n == Len(invoked.tests)
        IN /\ ca.total_cost = TotalOf(invoked.tests, "cost")
           /\ ca.insurance_coverage * n <= TotalOf(invoked.tests, "coverage")
           /\ TotalOf(invoked.tests, "coverage") < (ca.insurance_coverage + 1) * n
           /\ ca.patient_responsibility * 1000 <= ca.total_cost * (1000 - ca.insurance_coverage)
           /\ ca.total_cost * (1000 - ca.insurance_coverage)
                  < (ca.patient_responsibility + 1) * 1000
           /\ [i \in 1..n |-> invoked.tests[i].test_name]
                  = << <<"hyeoraek-geomsa(CBC)">>, <<"yujeonja-geomsa">> >>
               => /\ ca.total_cost = 100000
                  /\ ca.insurance_coverage = 750
                  /\ ca.patient_responsibility = 25000

\* C21, its case: one test matching "혈액검사" and one unmatched test
C21_BloodTestAndUnmatched ==
    /\ CostsAnalyzed
    /\ [i \in DOMAIN invoked.tests |-> invoked.tests[i].test_name]
           = << <<"hyeoraek-geomsa(CBC)">>, <<"yujeonja-geomsa">> >>
    /\ ret.data[1].patient_responsibility = 25000

\* _evaluate_cost_effectiveness has returned for the total it was given
Labelled == pc = "idle" /\ invoked.op = "evaluate_cost_effectiveness"

\* C22: the cost-effectiveness label is "high" exactly when total_cost <
\* 100000, "medium" exactly when 100000 <= total_cost < 300000, and "low"
\* otherwise; 99999 maps to "high" and 100000 to "medium".
C22_LabelBounds ==
    Labelled =>
        LET t == invoked.total_cost
            label == ret.data[1]
        IN /\ label = "high" <=> t < 100000
           /\ label = "medium" <=> (100000 <= t /\ t < 300000)
           /\ label = "low" <=> t >= 300000
           /\ t = 99999 => label = "high"
           /\ t = 100000 => label = "medium"

\* C22, its case: the total is exactly 100000
C22_AtTheBound ==
    Labelled /\ invoked.total_cost = 100000 /\ ret.data[1] = "medium"

RECURSIVE SumOfValues(_)
SumOfValues(dict) == IF dict = <<>> THEN 0 ELSE Head(dict).v + SumOfValues(Tail(dict))

\* C30: cost_breakdown has one entry per proposed test and the sum of its
\* values equals total_cost, for every test list, two tests of the same name
\* included.
C30_BreakdownPerTest ==
    CostsAnalyzed =>
        /\ Len(ret.data[1].cost_breakdown) = Len(invoked.tests)
        /\ SumOfValues(ret.data[1].cost_breakdown) = ret.data[1].total_cost

\* confirm_diagnosis has returned
Confirmed == pc = "idle" /\ invoked.op = "confirm_diagnosis"

\* C23: in every DiagnosisConfirmation returned by confirm_diagnosis,
\* follow_up_required is true if and only if confidence_level < 0.7 or the
\* severity is severe or critical, and follow_up_plan is present if and only
\* if follow_up_required is true.
C23_FollowUpPlanIffRequired ==
    Confirmed =>
        LET c == ret.data[1]
        IN /\ c.follow_up_required
                 <=> (c.confidence_level < 700
                        \/ c.confirmed_diagnosis.severity \in {<<"severe">>, <<"critical">>})
           /\ c.follow_up_plan # <<>> <=> c.follow_up_required

\* a stored session of a patient without symptoms
StoredWithoutSymptoms ==
    \E id \in sessions : heap[id][1].patient_info.symptoms = <<>>

\* a model call of a debate on a patient without symptoms
DebatedWithoutSymptoms ==
    kind = "process" /\ patient_info.symptoms = <<>> /\ calls # <<>>

\* C24: through the HTTP create-session and diagnose endpoints and the
\* dashboard form, no session is created for a patient record with an empty
\* symptom list and the debate is never run on it.
C24_EmptySymptomsRejected == ~StoredWithoutSymptoms /\ ~DebatedWithoutSymptoms

\* the stage of a run a model call belongs to: 1 the debate, 2 the handler,
\* 3 the final decision, 4 the evaluation
Stage(call) ==
    CASE call.site \in {"agent", "consensus"} -> 1
      [] call.site = "final_decision" -> 3
      [] call.site \in {"accuracy", "cost_efficiency", "safety", "improvement"} -> 4
      [] OTHER -> 2

\* the place of a debate call within its round
Slot(call) ==
    CASE call.site = "consensus" -> 6
      [] call.role = "hypothesis" -> 1
      [] call.role = "test_chooser" -> 2
      [] call.role = "challenger" -> 3
      [] call.role = "stewardship" -> 4
      [] call.role = "checklist" -> 5
      [] OTHER -> 0

CallsPerRound == Len(RoleOrder) + 1     \* the agents, then the consensus

\* C25: within one run the model calls happen in a fixed sequential order:
\* in each round the five agent calls in role order and then the consensus
\* call of that round, no call of round r+1 before the consensus call of
\* round r, the calls of the handler only after the last round, the
\* final-decision call only after the handler, and the evaluation calls only
\* after the final decision.
C25_CallsInFixedOrder ==
    /\ \A i, j \in DOMAIN calls : i < j => Stage(calls[i]) <= Stage(calls[j])
    /\ \A k \in DOMAIN calls :
          Stage(calls[k]) = 1 =>
              /\ calls[k].round = ((k - 1) \div CallsPerRound) + 1
              /\ Slot(calls[k]) = ((k - 1) % CallsPerRound) + 1
    /\ \A k \in DOMAIN calls :
          (Stage(calls[k]) > 1 /\ (k = 1 \/ Stage(calls[k - 1]) = 1)) =>
              /\ k > 1
              /\ (k - 1) % CallsPerRound = 0
              /\ pc # "idle" => k - 1 = CallsPerRound * Len(debate_rounds)
    /\ \A k \in DOMAIN calls :
          Stage(calls[k]) = 3 =>
              /\ handlers # <<>>
              /\ \A i \in DOMAIN calls : Stage(calls[i]) = 3 => i = k
    /\ \A k \in DOMAIN calls :
          Stage(calls[k]) = 4 => \E i \in 1..(k - 1) : Stage(calls[i]) = 3

\* a run of two rounds or more has returned, its diagnosis evaluated
C25_EvaluatedAfterTwoRounds ==
    /\ pc = "idle"
    /\ ret.op = "process_diagnosis"
    /\ \E k \in DOMAIN calls : calls[k].round = 2
    /\ \E k \in DOMAIN calls : calls[k].site = "improvement"

\* _parse_diagnosis has returned
Parsed == pc = "idle" /\ invoked.op = "parse_diagnosis"

\* whether a reply has a line of the tag
HasLine(text, tag) ==
    IsText(text) /\ \E i \in DOMAIN text : text[i] # <<>> /\ text[i][1] = tag

\* the body of the last line of the tag
LineBody(text, tag) ==
    LET last == CHOOSE i \in DOMAIN text :
                    /\ text[i] # <<>> /\ text[i][1] = tag
                    /\ \A j \in DOMAIN text : (text[j] # <<>> /\ text[j][1] = tag) => j <= i
    IN Tail(text[last])

\* the confidence line of a reply gives no number of [0,1]
UnusableConfidence(text) ==
    /\ HasLine(text, TagTrust)
    /\ LET f == ParseFloat(LineBody(text, TagTrust))
       IN f = <<>> \/ ~InUnit(f[1])

\* the fields other than confidence, as the lines of the reply give them
OtherFieldsKept(text, d) ==
    /\ d.condition = IF HasLine(text, TagCondition) THEN LineBody(text, TagCondition)
                     ELSE UnknownCondition
    /\ d.severity = IF HasLine(text, TagSeverity) THEN LineBody(text, TagSeverity)
                    ELSE <<"moderate">>
    /\ d.reasoning = IF HasLine(text, TagGrounds) THEN LineBody(text, TagGrounds)
                     ELSE DefaultDiagnosisReasoning
    /\ d.differential_diagnoses =
           IF HasLine(text, TagDifferential)
           THEN CommaItems(LineBody(text, TagDifferential), <<>>) ELSE <<>>

\* C26: for every model reply, _parse_diagnosis returns a Diagnosis whose
\* condition is the unknown-diagnosis marker when the reply has no condition
\* line, and whose confidence is 0.5 when the value of the confidence line is
\* not a number of [0,1], the other fields parsed from the reply being kept.
C26_ParsedDiagnosisDefaults ==
    Parsed =>
        LET text == invoked.diagnosis_text
            d == ret.data[1]
        IN /\ ~HasLine(text, TagCondition) => d.condition = UnknownCondition
           /\ UnusableConfidence(text) => d.confidence = 500 /\ OtherFieldsKept(text, d)

\* the consensus call of round n failed
ConsensusCallFailed(n) ==
    \E k \in DOMAIN calls :
        calls[k].site = "consensus" /\ calls[k].round = n /\ calls[k].reply = RAISE

\* every round before the last allowed one whose consensus call failed holds
\* the error string and is followed by another round
FailedConsensusGoesOn(rounds, last) ==
    \A n \in DOMAIN rounds :
        (ConsensusCallFailed(n) /\ n < last) =>
            /\ rounds[n].consensus = << <<ConsensusErrorPrefix, ErrApi>> >>
            /\ n < Len(rounds)

\* C27: a round whose consensus call failed is not treated as agreement: when
\* the call fails in round r < max_rounds the error consensus string is
\* recorded on round r and the debate goes on to round r+1.
C27_FailedConsensusIsNoAgreement ==
    /\ DebateReturned => FailedConsensusGoesOn(ret.data, invoked.max_rounds)
    /\ pc = "route" => FailedConsensusGoesOn(debate_rounds, max_rounds)

\* C28: after every successful process_diagnosis run, a second or later run
\* on the same session included, proposed_diagnosis, diagnosis_confirmation
\* and sdbench_evaluation are set only if the action of the run is
\* provide-diagnosis, and proposed_tests and cost_analysis only if it is
\* request-test.
C28_OutputsOfThisRunOnly ==
    (ProcessReturned /\ ret.success) =>
        LET state == ProcessedState
        IN /\ (\/ state.proposed_diagnosis # <<>>
               \/ state.diagnosis_confirmation # <<>>
               \/ state.sdbench_evaluation # <<>>) => state.current_action = ProvideDiagnosis
           /\ (\/ state.proposed_tests # <<>>
               \/ state.cost_analysis # <<>>) => state.current_action = RequestTest

\* an id that was stored and cleared: its state object exists, the store
\* does not hold it
Cleared(id) == id \notin sessions /\ heap[id] # <<>>

\* C29: once clear_session(id) has returned true, id stays absent from the
\* session store: no later step of any operation puts it back, also when a
\* process_diagnosis run for id was suspended at the moment of the deletion
\* and completes afterwards.
C29_ClearedStaysAbsent ==
    [][\A id \in DOMAIN heap : Cleared(id) => id \notin sessions']_vars

====
